---- MODULE Spec2Model ----
(***************************************************************************)
(* A model of the voter registry (hosnemubarak/voter_project): the status  *)
(* audit trail, the cache-backed rate limiter, the category scope resolver *)
(* and the ranked voter search, as implemented in apps/voters/views.py and *)
(* apps/voters/public_views.py, with the writers of the store in           *)
(* models.py, admin.py and management/commands.                            *)
(*                                                                         *)
(* The module holds several specifications over one set of variables; a    *)
(* specification leaves the variables of the other components at their     *)
(* initial value.                                                          *)
(*   Spec          update_voter_status, one request at a time              *)
(*   SpecConc      update_voter_status, requests of several workers        *)
(*                 interleaved statement by statement, workers may crash   *)
(*   SpecRate      the wrapper of rate_limit / public_rate_limit, one call *)
(*                 at a time, while the clock advances                     *)
(*   SpecRateConc  the same wrapper, calls of several workers interleaved  *)
(*                 between cache.get and cache.set                         *)
(*   SpecGate      the rate-limited views and the undecorated public page  *)
(*   SpecScope     the category filter over every category forest          *)
(*   SpecSearch    the two ranked searches over every small store          *)
(*   SpecSuggest   the two suggestion views over every small store         *)
(*   SpecScoped    searches and suggestions that carry a scope identifier, *)
(*                 over every category forest                              *)
(*   SpecHighlight highlight_match on every short text and query           *)
(*   SpecVariants  the suggestion views over names spelled in several      *)
(*                 letter cases                                            *)
(*   SpecStore     the voters table under import_voters_all, Voter.save,   *)
(*                 update_voter_status and update_search_text              *)
(*   SpecFrame     update_voter_status on imported and saved voters        *)
(*   SpecAdmin     the audit trail under update_voter_status and the       *)
(*                 admin site                                              *)
(*   SpecDescend   get_category_descendants frame by frame, on every       *)
(*                 category forest; SpecDescendAny: on every assignment    *)
(*                 of parents, cycles included                             *)
(*   SpecImport    the categories table under runs of import_voters_all    *)
(*   SpecPage      the public page advanced_voter_search and its filters   *)
(*   SpecForwarded the rate limiter under requests of one REMOTE_ADDR      *)
(***************************************************************************)
EXTENDS Integers, Sequences, FiniteSets, TLC

VARIABLES
    voterStatus,   \* Voter.status of every stored voter (the voters table)
    audits,        \* the VoterStatusAudit table, in creation order
    response,      \* Spec: the last request of update_voter_status and its outcome
    before,        \* Spec: the store as it was when that request arrived
    pc,            \* SpecConc: where each worker is inside update_voter_status
    call,          \* SpecConc: the request each worker is serving
    obj,           \* SpecConc: each worker's in-memory Voter instance (its status)
    now,           \* the clock read by the cache (time.time())
    cache,         \* django.core.cache: key -> [value, expires] or NoEntry
    log,           \* per cache key, the calls of the decorated view so far
    rpc,           \* SpecRateConc: where each worker is inside the wrapper
    rcall,         \* SpecRateConc: the worker's endpoint, ip and request_count
    parent,        \* the categories table: Category.parent_id of every category
    scopeReq,      \* the category id selected by the last voter_list request
    scopeIds,      \* the ids its category filter was given (NoFilter: none applied)
    catRows,       \* the categories table as import_voters_all writes it: id -> row
    trav,          \* a call of get_category_descendants in progress: its frames
    db,            \* the database backend settings.py selected
    voterRows,     \* the voters table as the searches read it: id -> row
    voterCat,      \* its category_id column: id -> Category id
    searchRes,     \* the last ranked search and its response
    suggestRes,    \* the last suggestion request and its response
    highlighted,   \* the last call of highlight_match and what it returned
    pageRes        \* the last request of advanced_voter_search and its page

statusVars == <<voterStatus, audits, response, before, pc, call, obj>>
rateVars == <<now, cache, log, rpc, rcall>>
scopeVars == <<parent, scopeReq, scopeIds, catRows, trav>>
searchVars == <<db, voterRows, voterCat, searchRes, suggestRes, highlighted, pageRes>>
vars == <<voterStatus, audits, response, before, pc, call, obj,
          now, cache, log, rpc, rcall, parent, scopeReq, scopeIds, catRows, trav,
          db, voterRows, voterCat, searchRes, suggestRes, highlighted, pageRes>>

---------------------------------------------------------------------------
(* Bounds of the model *)

NumVoters == 2      \* voters in the store
MaxAudits == 3      \* audit entries the store may hold
NumWorkers == 2     \* concurrent request workers (SpecConc, SpecRateConc)
PublicRPM == 2      \* requests_per_minute of the public endpoints (60 in the code)
AuthRPM == 3        \* requests_per_minute of the authenticated ones (120)
MaxCalls == 4       \* calls of rate-limited views in one behaviour
TickLen == 20       \* the clock advances in steps of TickLen
MaxTime == 60       \* and stops at MaxTime
NumCategories == 4  \* categories in the store
MaxRecords == 2     \* voter rows in the store the searches read
PageRPM == 1        \* the limit the specification gives the public page (30)
MaxTextLen == 3     \* characters of a text given to highlight_match
MaxQueryLen == 2    \* characters of a query given to highlight_match
MaxNames == 3       \* voter rows in the store the suggestion views read

Voters == 1 .. NumVoters
Workers == 1 .. NumWorkers
NoSuchPk == 0                       \* a primary key of no voter
Pks == Voters \cup {NoSuchPk}
Actors == {"alice", "bob"}          \* request.user

---------------------------------------------------------------------------
(* Voter.STATUS_CHOICES and the status default *)

STATUS_CHOICES == {"present", "absent", "dead"}
StatusDefault == "present"
\* what a POST may carry in 'status' after strip(): a valid value, or not
PostedStatuses == STATUS_CHOICES \cup {"", "bogus"}

\* valid_statuses = [s[0] for s in Voter.STATUS_CHOICES]
AnyPostedStatus == PostedStatuses
valid_statuses == STATUS_CHOICES

\* VoterStatusAudit.objects.create(voter=, changed_by=, old_status=,
\* new_status=, remarks=, ip_address=): ip_address and changed_at are copied
\* from the request and the clock, the requests of the model post no
\* remarks; creation order is the order of the sequence `audits'
NoRemarks == ""
BadAuditEntry(pk, actor, old, new) ==
    [voter |-> pk, changed_by |-> actor, old_status |-> new, new_status |-> new,
     remarks |-> NoRemarks]
AuditEntry(pk, actor, old, new) ==
    [voter |-> pk, changed_by |-> actor, old_status |-> old, new_status |-> new,
     remarks |-> NoRemarks]

\* `if voter.status != new_status'
AlwaysChanged(current, new) == TRUE
StatusChanged(current, new) == current # new

NoResponse == [kind |-> "none"]
Idle == [pk |-> NoSuchPk, actor |-> "alice", status |-> ""]

InitStatusVars ==
    /\ voterStatus = [v \in Voters |-> StatusDefault]
    /\ audits = <<>>
    /\ response = NoResponse
    /\ before = [voterStatus |-> voterStatus, audits |-> audits]
    /\ pc = [w \in Workers |-> "idle"]
    /\ call = [w \in Workers |-> Idle]
    /\ obj = [w \in Workers |-> StatusDefault]

---------------------------------------------------------------------------
(* The rate limiter: rate_limit (views.py) and public_rate_limit          *)
(* (public_views.py), one cache entry per (decorator, view, client ip)    *)

WINDOW == 60                        \* the timeout of cache.set, and retry_after
NoHeader == <<>>                    \* no (or an empty) X-Forwarded-For header
NoAddr == "none"                    \* no REMOTE_ADDR in request.META
Endpoints == {"api_search_voters", "public_api_search_voters"}
\* request.META: the X-Forwarded-For header split at ',' and REMOTE_ADDR
Metas == [xff : {NoHeader, <<"c2">>, <<"c2", "c1">>}, remote : {"c1", NoAddr}]
Ips == {"c1", "c2", "unknown"}
Keys == Endpoints \X Ips
\* the views of public_urls.py that no decorator wraps, and every view with
\* every client: what the log of calls is kept for
Undecorated == {"advanced_voter_search"}
Callers == (Endpoints \cup Undecorated) \X Ips
NoEntry == [value |-> -1, expires |-> -1]

\* @rate_limit(requests_per_minute=120) / @public_rate_limit(requests_per_minute=60)
requests_per_minute(endpoint) ==
    IF endpoint = "api_search_voters" THEN AuthRPM ELSE PublicRPM

\* x_forwarded_for.split(',')[0].strip(), else REMOTE_ADDR, else 'unknown'
ClientIp(meta) ==
    IF meta.xff # NoHeader THEN meta.xff[1]
    ELSE IF meta.remote # NoAddr THEN meta.remote
    ELSE "unknown"

\* f'rate_limit:{view_func.__name__}:{ip}' (the two decorators use two
\* prefixes and decorate different views)
cache_key(endpoint, ip) == <<endpoint, ip>>

\* cache.get(key, 0): an entry whose timeout has passed is gone
CacheGetForever(c, key, t) == IF c[key] # NoEntry THEN c[key].value ELSE 0
CacheGet(c, key, t) ==
    IF c[key] # NoEntry /\ t < c[key].expires THEN c[key].value ELSE 0

\* cache.set(key, value, timeout)
CacheSet(c, key, value, timeout, t) ==
    [c EXCEPT ![key] = [value |-> value, expires |-> t + timeout]]

\* `if request_count >= requests_per_minute'
ExceededOffByOne(request_count, limit) == request_count > limit
Exceeded(request_count, limit) == request_count >= limit

Rejected(t) == [t |-> t, status |-> 429, retry_after |-> WINDOW, ran |-> FALSE]
Admitted(t) == [t |-> t, status |-> 200, retry_after |-> 0, ran |-> TRUE]

TotalCalls == LET RECURSIVE Sum(_)
                  Sum(S) == IF S = {} THEN 0
                            ELSE LET k == CHOOSE k \in S : TRUE
                                 IN  Len(log[k]) + Sum(S \ {k})
              IN  Sum(Callers)

RIdle == [endpoint |-> "api_search_voters", ip |-> "unknown", request_count |-> 0]

InitRateVars ==
    /\ now = 0
    /\ cache = [k \in Keys |-> NoEntry]
    /\ log = [k \in Callers |-> <<>>]
    /\ rpc = [w \in Workers |-> "idle"]
    /\ rcall = [w \in Workers |-> RIdle]

---------------------------------------------------------------------------
(* The category tree and the scope of a category filter                   *)

Categories == 1 .. NumCategories
NoParent == 0                       \* parent_id IS NULL
NoSuchCategory == NumCategories + 1 \* an id of no category
NoFilter == <<0>>                   \* the request filtered by no category

\* Category.get_ancestors: the chain of parents of c, nearest first
RECURSIVE get_ancestors(_, _)
get_ancestors(par, c) ==
    IF par[c] = NoParent THEN <<>>
    ELSE <<par[c]>> \o get_ancestors(par, par[c])

Range(f) == {f[i] : i \in DOMAIN f}

\* the parent links have no cycle (ingestion creates a child under an
\* existing parent only)
Acyclic(par) ==
    \A c \in Categories :
        LET RECURSIVE Up(_, _)
            Up(x, n) == IF x = NoParent THEN TRUE
                        ELSE IF n = 0 THEN FALSE
                        ELSE Up(par[x], n - 1)
        IN  Up(c, NumCategories)

\* Category.objects.filter(parent=category), as a list (rows come in the
\* order of Meta.ordering; ascending id stands for it)
RECURSIVE SortedSeq(_)
SortedSeq(S) ==
    IF S = {} THEN <<>>
    ELSE LET m == CHOOSE x \in S : \A y \in S : x <= y
         IN  <<m>> \o SortedSeq(S \ {m})
Children(par, c) == SortedSeq({x \in Categories : par[x] = c})

\* get_category_descendants(category)
ChildrenOnly(par, c) == Children(par, c)
RECURSIVE get_category_descendants(_, _)
get_category_descendants(par, c) ==
    LET children == Children(par, c)
        RECURSIVE Loop(_, _)
        \* for child in children: descendants.append(child.id);
        \*                        descendants.extend(get_category_descendants(child))
        Loop(i, descendants) ==
            IF i > Len(children) THEN descendants
            ELSE Loop(i + 1, Append(descendants, children[i])
                                \o get_category_descendants(par, children[i]))
    IN  Loop(1, <<>>)


\* no call of get_category_descendants has been made
NoCall == [status |-> "idle", stack |-> <<>>, result |-> <<>>]

InitScopeVars ==
    /\ parent = [c \in Categories |-> NoParent]
    /\ scopeReq = NoSuchCategory
    /\ scopeIds = NoFilter
    /\ catRows = <<>>
    /\ trav = NoCall

---------------------------------------------------------------------------
(* The voters table as the ranked searches read it                        *)

\* Text is a tuple of characters; a column that is NULL holds NULL
NULL == <<"NULL">>
Digits == {"1", "2"}
Lower(c) == IF c = "A" THEN "a" ELSE IF c = "B" THEN "b" ELSE c
LowerStr(t) == [i \in 1 .. Len(t) |-> Lower(t[i])]
\* the code point of a character (the order of a binary collation)
CharCode(c) ==
    CASE c = " " -> 32 [] c = "1" -> 49 [] c = "2" -> 50
      [] c = "A" -> 65 [] c = "B" -> 66 [] c = "a" -> 97 [] c = "b" -> 98

Min(a, b) == IF a <= b THEN a ELSE b

StartsWith(t, q) == Len(q) <= Len(t) /\ SubSeq(t, 1, Len(q)) = q
Contains(t, q) == \E i \in 0 .. Len(t) - Len(q) : SubSeq(t, i + 1, i + Len(q)) = q

\* the field lookups of the ORM; a NULL column matches no lookup
icontains(f, q) == f # NULL /\ Contains(LowerStr(f), LowerStr(q))
istartswith(f, q) == f # NULL /\ StartsWith(LowerStr(f), LowerStr(q))
iexact(f, q) == f # NULL /\ LowerStr(f) = LowerStr(q)
exact(f, q) == f # NULL /\ f = q
startswith(f, q) == f # NULL /\ StartsWith(f, q)

\* str.isdigit()
isdigit(q) == q # <<>> /\ \A i \in 1 .. Len(q) : q[i] \in Digits

\* ' '.join(filter(None, parts))
RECURSIVE Join(_)
Join(parts) ==
    IF parts = <<>> THEN <<>>
    ELSE IF Len(parts) = 1 THEN parts[1]
    ELSE parts[1] \o <<" ">> \o Join(Tail(parts))

OrEmpty(f) == IF f = NULL THEN <<>> ELSE f

\* Voter.build_search_text
build_search_text(r) ==
    LowerStr(Join(SelectSeq(
        <<OrEmpty(r.serial), OrEmpty(r.name), OrEmpty(r.father), OrEmpty(r.mother),
          OrEmpty(r.address), OrEmpty(r.voter_no), OrEmpty(r.profession)>>,
        LAMBDA part : part # <<>>)))

\* A row of the voters table.  bulk_create (import_voters_all) stores rows
\* without calling save(), so their search_text is NULL; a row written by
\* save() holds build_search_text.
Row(serial, name, voter_no, father, mother, profession, address, saved) ==
    LET r == [serial |-> serial, name |-> name, voter_no |-> voter_no,
              father |-> father, mother |-> mother, profession |-> profession,
              address |-> address]
    IN  [serial |-> serial, name |-> name, voter_no |-> voter_no,
         father |-> father, mother |-> mother, profession |-> profession,
         address |-> address,
         search_text |-> IF saved THEN build_search_text(r) ELSE NULL]

\* The rows the stores of the model are made of: every column alone, with
\* the values that match a query as a whole, as a prefix, inside, or not at
\* all, and the pairs of columns whose rules compete.
Pool ==
    LET N == NULL
        ab == <<"a", "b">>       AB == <<"A", "B">>      Ab == <<"A", "b">>
        abb == <<"a", "b", "b">> bab == <<"b", "a", "b">> b == <<"b">>
        v12 == <<"1", "2">>      v121 == <<"1", "2", "1">>
        v212 == <<"2", "1", "2">> v21 == <<"2", "1">>
        v1ab == <<"1", "a", "b">>
    IN  << Row(N, N, N, N, N, N, N, FALSE),
           Row(N, ab, N, N, N, N, N, FALSE),
           Row(N, AB, N, N, N, N, N, TRUE),
           Row(N, abb, N, N, N, N, N, FALSE),
           Row(N, bab, N, N, N, N, N, FALSE),
           Row(N, b, N, N, N, N, N, FALSE),
           Row(N, N, v12, N, N, N, N, FALSE),
           Row(N, N, v121, N, N, N, N, FALSE),
           Row(N, N, v212, N, N, N, N, FALSE),
           Row(N, N, v21, N, N, N, N, FALSE),
           Row(N, N, v1ab, N, N, N, N, FALSE),
           Row(N, N, N, ab, N, N, N, FALSE),
           Row(N, N, N, bab, N, N, N, FALSE),
           Row(N, N, N, N, Ab, N, N, FALSE),
           Row(N, N, N, N, bab, N, N, FALSE),
           Row(N, N, N, N, N, N, bab, FALSE),
           Row(N, N, N, N, N, ab, N, FALSE),
           Row(N, N, N, N, N, ab, N, TRUE),
           Row(v12, N, N, N, N, N, N, TRUE),
           Row(N, bab, N, ab, N, N, N, FALSE),
           Row(N, b, N, N, N, N, bab, TRUE),
           Row(N, N, v1ab, ab, N, N, N, FALSE),
           Row(N, N, N, bab, Ab, N, N, FALSE),
           Row(N, N, N, bab, N, N, bab, FALSE),
           Row(N, ab, v12, N, N, N, N, FALSE),
           Row(N, b, v12, N, N, N, N, FALSE),
           Row(N, abb, v121, N, N, N, N, TRUE) >>

\* Voter.save(update_fields=...): save() first sets self.search_text to
\* build_search_text() on the instance in memory, then Model.save writes the
\* named columns of the instance over the stored row, every column when no
\* update_fields are given.  The status column is the variable voterStatus.
TextColumns ==
    {"serial", "name", "voter_no", "father", "mother", "profession", "address",
     "search_text"}
AllFields == TextColumns \cup {"status"}
save(stored, instance, fields) ==
    LET inmemory == [instance EXCEPT !.search_text = build_search_text(instance)]
    IN  [c \in DOMAIN stored |-> IF c \in fields THEN inmemory[c] ELSE stored[c]]

\* voter.save(update_fields=['status']) of update_voter_status
EveryField == AllFields
update_fields == {"status"}

\* the voters table after update_voter_status saved voter pk
SavedStatus(rows, pk) ==
    IF pk \in DOMAIN rows
    THEN [rows EXCEPT ![pk] = save(rows[pk], rows[pk], update_fields)]
    ELSE rows

\* q = request.GET.get('q', '').strip()
Queries == { <<>>, <<"a">>, <<"a", "b">>, <<"1">>, <<"1", "2">> }
\* request.GET.get('limit', ...)
LimitParams == {0, 1, 100}
\* a request parameter that is absent or empty
NoParam == 0

\* settings.DATABASES: the backend decides where ORDER BY puts NULL and
\* whether its default collation tells letter case apart
Backends == {"sqlite3", "mysql", "postgresql"}
NullsFirst(backend) == backend # "postgresql"
CaseBlind(backend) == backend = "mysql"

NoSearch == [endpoint |-> "none"]
NoSuggest == [endpoint |-> "none"]
NoHighlight == [called |-> FALSE]
NoPage == [requested |-> FALSE]

InitSearchVars ==
    /\ db = "sqlite3"
    /\ voterRows = <<>>
    /\ voterCat = <<>>
    /\ searchRes = NoSearch
    /\ suggestRes = NoSuggest
    /\ pageRes = NoPage
    /\ highlighted = NoHighlight

---------------------------------------------------------------------------
(* Spec: update_voter_status as one step *)

InitStatus == InitStatusVars /\ InitRateVars /\ InitScopeVars /\ InitSearchVars

\* update_voter_status(request, pk) with request.user = actor and
\* request.POST['status'] = new_status
update_voter_status(pk, actor, new_status) ==
    /\ Len(audits) < MaxAudits
    /\ before' = [voterStatus |-> voterStatus, audits |-> audits]
    /\ UNCHANGED <<pc, call, obj>>
    /\ UNCHANGED <<rateVars, scopeVars>>
    /\ UNCHANGED <<db, voterCat, searchRes, suggestRes, highlighted, pageRes>>
    /\ IF pk \notin Voters
       THEN \* get_object_or_404
            /\ response' = [kind |-> "404", pk |-> pk, status |-> new_status]
            /\ UNCHANGED <<voterStatus, audits, voterRows>>
       ELSE IF new_status \notin valid_statuses
       THEN /\ response' = [kind |-> "error", pk |-> pk, status |-> new_status]
            /\ UNCHANGED <<voterStatus, audits, voterRows>>
       ELSE IF StatusChanged(voterStatus[pk], new_status)
       THEN /\ audits' = Append(audits,
                            AuditEntry(pk, actor, voterStatus[pk], new_status))
            /\ voterStatus' = [voterStatus EXCEPT ![pk] = new_status]
            /\ voterRows' = SavedStatus(voterRows, pk)
            /\ response' = [kind |-> "updated", pk |-> pk, status |-> new_status]
       ELSE /\ response' = [kind |-> "unchanged", pk |-> pk, status |-> new_status]
            /\ UNCHANGED <<voterStatus, audits, voterRows>>

Next ==
    \E pk \in Pks, actor \in Actors, s \in PostedStatuses :
        update_voter_status(pk, actor, s)

Spec == InitStatus /\ [][Next]_vars

\* The audit entries of voter v, in creation order
AuditsOf(v) == SelectSeq(audits, LAMBDA e : e.voter = v)

\* C1: one update_voter_status call on an existing voter with a valid status,
\* run alone: when the posted status equals the stored one nothing is written
\* and the outcome is 'unchanged'; otherwise the stored status becomes the
\* posted one and exactly one audit entry is appended, carrying the status
\* before the call as old_status and the posted status as new_status.
C1_TransitionRecorded ==
    (response.kind # "none" /\ response.pk \in Voters
        /\ response.status \in STATUS_CHOICES) =>
        LET pk == response.pk
            new == response.status
            old == before.voterStatus[pk]
        IN  IF new = old
            THEN /\ response.kind = "unchanged"
                 /\ audits = before.audits
                 /\ voterStatus = before.voterStatus
            ELSE /\ response.kind = "updated"
                 /\ voterStatus = [before.voterStatus EXCEPT ![pk] = new]
                 /\ Len(audits) = Len(before.audits) + 1
                 /\ SubSeq(audits, 1, Len(before.audits)) = before.audits
                 /\ audits[Len(audits)].voter = pk
                 /\ audits[Len(audits)].old_status = old
                 /\ audits[Len(audits)].new_status = new

\* a second change of the same voter was just recorded
C1_Witness ==
    /\ response.kind = "updated"
    /\ before.voterStatus[response.pk] # StatusDefault
    /\ Len(audits) >= 2

\* C16: an update_voter_status call whose status is not one of present,
\* absent, dead changes nothing: no voter's status changes and no audit
\* entry is created; on an existing voter it is answered with the
\* validation error.
C16_InvalidStatusRejected ==
    (response.kind # "none" /\ response.status \notin {"present", "absent", "dead"}) =>
        /\ voterStatus = before.voterStatus
        /\ audits = before.audits
        /\ response.pk \in Voters => response.kind = "error"

\* an invalid status was posted for a voter whose status had been changed
C16_Witness ==
    /\ response.kind = "error"
    /\ response.status = "bogus"
    /\ voterStatus[response.pk] # StatusDefault
    /\ audits # <<>>

---------------------------------------------------------------------------
(* SpecConc: update_voter_status statement by statement.  Every ORM call  *)
(* is its own committed statement: the view opens no transaction and the  *)
(* settings leave ATOMIC_REQUESTS off.                                    *)

InFlight == {w \in Workers : pc[w] \in {"loaded", "audited"}}

\* the request ends (it returns, or its worker is gone): its locals are dropped
Return(w, to) ==
    /\ pc' = [pc EXCEPT ![w] = to]
    /\ call' = [call EXCEPT ![w] = Idle]
    /\ obj' = [obj EXCEPT ![w] = StatusDefault]

\* voter = get_object_or_404(Voter, pk=pk); new_status = request.POST.get(...)
Load(w, pk, actor, new_status) ==
    /\ pc[w] = "idle"
    /\ Len(audits) + Cardinality(InFlight) < MaxAudits
    /\ IF pk \in Voters
       THEN /\ obj' = [obj EXCEPT ![w] = voterStatus[pk]]
            /\ call' = [call EXCEPT ![w] =
                          [pk |-> pk, actor |-> actor, status |-> new_status]]
            /\ pc' = [pc EXCEPT ![w] = "loaded"]
       ELSE UNCHANGED <<obj, call, pc>>      \* Http404
    /\ UNCHANGED <<voterStatus, audits, response, before>>
    /\ UNCHANGED <<rateVars, scopeVars, searchVars>>

\* `if new_status not in valid_statuses: ... return redirect(...)'
Reject(w) ==
    /\ pc[w] = "loaded"
    /\ call[w].status \notin valid_statuses
    /\ Return(w, "idle")
    /\ UNCHANGED <<voterStatus, audits, response, before>>
    /\ UNCHANGED <<rateVars, scopeVars, searchVars>>

\* the else branch: messages.info(request, 'Status unchanged.')
Unchanged(w) ==
    /\ pc[w] = "loaded"
    /\ call[w].status \in valid_statuses
    /\ ~StatusChanged(obj[w], call[w].status)
    /\ Return(w, "idle")
    /\ UNCHANGED <<voterStatus, audits, response, before>>
    /\ UNCHANGED <<rateVars, scopeVars, searchVars>>

\* VoterStatusAudit.objects.create(..., old_status=voter.status, ...)
CreateAudit(w) ==
    /\ pc[w] = "loaded"
    /\ call[w].status \in valid_statuses
    /\ StatusChanged(obj[w], call[w].status)
    /\ audits' = Append(audits,
                    AuditEntry(call[w].pk, call[w].actor, obj[w], call[w].status))
    /\ pc' = [pc EXCEPT ![w] = "audited"]
    /\ UNCHANGED <<voterStatus, response, before, call, obj>>
    /\ UNCHANGED <<rateVars, scopeVars, searchVars>>

\* voter.status = new_status; voter.save(update_fields=['status'])
SaveVoter(w) ==
    /\ pc[w] = "audited"
    /\ voterStatus' = [voterStatus EXCEPT ![call[w].pk] = call[w].status]
    /\ voterRows' = SavedStatus(voterRows, call[w].pk)
    /\ Return(w, "idle")
    /\ UNCHANGED <<audits, response, before>>
    /\ UNCHANGED <<rateVars, scopeVars>>
    /\ UNCHANGED <<db, voterCat, searchRes, suggestRes, highlighted, pageRes>>

\* the worker dies, or a statement raises, while the request is being served
Crash(w) ==
    /\ pc[w] \in {"loaded", "audited"}
    /\ Return(w, "crashed")
    /\ UNCHANGED <<voterStatus, audits, response, before>>
    /\ UNCHANGED <<rateVars, scopeVars, searchVars>>

NextConc ==
    \E w \in Workers :
        \/ \E pk \in Pks, actor \in Actors, s \in PostedStatuses :
              Load(w, pk, actor, s)
        \/ Reject(w)
        \/ Unchanged(w)
        \/ CreateAudit(w)
        \/ SaveVoter(w)
        \/ Crash(w)

SpecConc == InitStatus /\ [][NextConc]_vars

\* the stored status of v is the one its latest audit entry records
StatusMatchesLatestAudit(v) ==
    voterStatus[v] = IF AuditsOf(v) = <<>> THEN StatusDefault
                     ELSE AuditsOf(v)[Len(AuditsOf(v))].new_status

\* the audit entries of v form a chain starting at the initial status
AuditChain(v) ==
    /\ AuditsOf(v) # <<>> => AuditsOf(v)[1].old_status = StatusDefault
    /\ \A i \in 1 .. Len(AuditsOf(v)) - 1 :
          AuditsOf(v)[i + 1].old_status = AuditsOf(v)[i].new_status
    /\ \A i \in 1 .. Len(AuditsOf(v)) :
          AuditsOf(v)[i].old_status # AuditsOf(v)[i].new_status

\* C2: the status update and the audit append are one committed unit: once
\* no request is being served any more (each has returned or has crashed),
\* every voter's stored status is the one its latest audit entry records.
C2_AllOrNothing ==
    (\A w \in Workers : pc[w] \in {"idle", "crashed"}) =>
        \A v \in Voters : StatusMatchesLatestAudit(v)

\* C3: under any interleaving of requests that all return (no crash), the
\* audit entries of a voter form a chain, each old_status being the previous
\* new_status, and the stored status is the new_status of the latest entry.
C3_OneEntryPerChange ==
    (\A w \in Workers : pc[w] = "idle") =>
        \A v \in Voters : AuditChain(v) /\ StatusMatchesLatestAudit(v)


---------------------------------------------------------------------------
(* SpecRate: the wrapper of a rate-limited view as one step              *)

InitRate == InitStatusVars /\ InitRateVars /\ InitScopeVars /\ InitSearchVars

\* wrapper(request) of a decorated view, as one step
wrapper(endpoint, meta) ==
    LET ip == ClientIp(meta)
        key == cache_key(endpoint, ip)
        request_count == CacheGet(cache, key, now)
    IN  /\ TotalCalls < MaxCalls
        /\ IF Exceeded(request_count, requests_per_minute(endpoint))
           THEN /\ log' = [log EXCEPT ![key] = Append(@, Rejected(now))]
                /\ UNCHANGED cache
           ELSE /\ cache' = CacheSet(cache, key, request_count + 1, WINDOW, now)
                /\ log' = [log EXCEPT ![key] = Append(@, Admitted(now))]
        /\ UNCHANGED <<now, rpc, rcall>>
        /\ UNCHANGED <<statusVars, scopeVars, searchVars>>

\* time passes
Tick ==
    /\ now + TickLen <= MaxTime
    /\ now' = now + TickLen
    /\ UNCHANGED <<cache, log, rpc, rcall>>
    /\ UNCHANGED <<statusVars, scopeVars, searchVars>>

NextRate ==
    \/ \E e \in Endpoints, m \in Metas : wrapper(e, m)
    \/ Tick

SpecRate == InitRate /\ [][NextRate]_vars

\* the first call of a window: no earlier call of the key, or the previous
\* one at least WINDOW ago (whatever it had stored has timed out)
FreshAt(L, i) == i = 1 \/ L[i].t - L[i - 1].t >= WINDOW

\* C4: for every endpoint and client identity with limit N, when N+1 calls
\* arrive one after another within one window of 60 time units, the first N
\* run the view and the (N+1)th is answered 429 with retry_after 60 and does
\* not run it.
C4_ExactlyNAdmitted ==
    \A k \in Keys :
        LET L == log[k]
            N == requests_per_minute(k[1])
        IN  \A i \in 1 .. Len(L) :
                (FreshAt(L, i) /\ i + N <= Len(L) /\ L[i + N].t < L[i].t + WINDOW) =>
                    /\ \A m \in i .. i + N - 1 : L[m].status = 200 /\ L[m].ran
                    /\ L[i + N].status = 429
                    /\ L[i + N].retry_after = WINDOW
                    /\ ~L[i + N].ran

\* a key whose (N+1)th call came later than the first, inside the window
C4_Witness ==
    \E k \in Keys :
        LET N == requests_per_minute(k[1])
        IN  /\ Len(log[k]) = N + 1
            /\ log[k][N + 1].t > log[k][1].t
            /\ log[k][N + 1].t < log[k][1].t + WINDOW
            /\ log[k][N + 1].status = 429

\* the start of the fixed window that call i of L falls into: the first
\* call opens a window, and so does every call that comes WINDOW or more
\* after the start of the window before it
RECURSIVE WindowStart(_, _)
WindowStart(L, i) ==
    IF i = 1 THEN L[1].t
    ELSE IF L[i].t >= WindowStart(L, i - 1) + WINDOW THEN L[i].t
    ELSE WindowStart(L, i - 1)

\* C19: the rate window is fixed: the counter of a key is back at zero 60
\* time units after the first call of the window, whatever calls came
\* inside the window; so a call that comes 60 or more after the start of
\* the window before it finds the counter at zero and is admitted.
C19_FixedWindow ==
    \A k \in Keys :
        LET L == log[k]
        IN  /\ (L # <<>> /\ now >= WindowStart(L, Len(L)) + WINDOW) =>
                  CacheGet(cache, k, now) = 0
            /\ \A i \in 1 .. Len(L) :
                  (i = 1 \/ L[i].t >= WindowStart(L, i - 1) + WINDOW) =>
                      L[i].status = 200

\* C28: a client that was rejected as rate-limited and then sends no
\* request to that endpoint for 60 time units is admitted on its next
\* request.
C28_AdmittedAfterSilence ==
    \A k \in Keys :
        LET L == log[k]
        IN  /\ \A i \in 1 .. Len(L) - 1 :
                  (L[i].status = 429 /\ L[i + 1].t >= L[i].t + WINDOW) =>
                      L[i + 1].status = 200 /\ L[i + 1].ran
            /\ (L # <<>> /\ L[Len(L)].status = 429 /\ now >= L[Len(L)].t + WINDOW) =>
                  ~Exceeded(CacheGet(cache, k, now), requests_per_minute(k[1]))

\* a client was rejected, stayed away for a window and was admitted
C28_Witness ==
    \E k \in Keys :
        \E i \in 1 .. Len(log[k]) - 1 :
            /\ log[k][i].status = 429
            /\ log[k][i + 1].t >= log[k][i].t + WINDOW
            /\ log[k][i + 1].status = 200

---------------------------------------------------------------------------
(* SpecForwarded: every request comes from one REMOTE_ADDR and carries    *)
(* any X-Forwarded-For header                                             *)

OneAddress == "c1"
FromOneAddress == {m \in Metas : m.remote = OneAddress}

NextForwarded ==
    \/ \E e \in Endpoints, m \in FromOneAddress : wrapper(e, m)
    \/ Tick

SpecForwarded == InitRate /\ [][NextForwarded]_vars

\* the calls of endpoint e that were admitted at a time in [t0, t0 + WINDOW)
RECURSIVE AdmittedFrom(_, _, _)
AdmittedFrom(e, t0, ips) ==
    IF ips = {} THEN 0
    ELSE LET ip == CHOOSE x \in ips : TRUE
         IN  Len(SelectSeq(log[<<e, ip>>],
                           LAMBDA c : c.status = 200 /\ t0 <= c.t /\ c.t < t0 + WINDOW))
             + AdmittedFrom(e, t0, ips \ {ip})

\* C29: the requests that one REMOTE_ADDR gets admitted to one rate-limited
\* endpoint within one window are never more than the limit of the
\* endpoint, whatever X-Forwarded-For values the requests carry.
C29_LimitPerAddress ==
    \A e \in Endpoints, t0 \in 0 .. MaxTime :
        AdmittedFrom(e, t0, Ips) <= requests_per_minute(e)

---------------------------------------------------------------------------
(* SpecGate: the rate-limited views together with the public page         *)
(* advanced_voter_search, which public_urls.py routes undecorated         *)

\* request.GET of advanced_voter_search: the text parameters (search, name,
\* father, mother, voter_no, serial, address; <<>> when absent or blank
\* after strip()), gender, and the three category parameters
TextParams == {"name", "father", "mother", "voter_no", "serial", "address"}
SearchColumns == {"serial", "name", "voter_no", "father", "mother", "address"}
NoText == [f \in TextParams |-> <<>>]
NoParams ==
    [search |-> <<>>, text |-> NoText, gender |-> "",
     upazila |-> NoParam, union |-> NoParam, voter_area |-> NoParam]

\* Voter.gender, which import_voters_all takes from the file name
voterGender(id) == IF id % 2 = 1 THEN "male" ELSE "female"

\* `voter_area_id or union_id or upazila_id'
selected_category(params) ==
    IF params.voter_area # NoParam THEN params.voter_area
    ELSE IF params.union # NoParam THEN params.union
    ELSE params.upazila

\* the filters the view applies to the queryset: `if search_query:',
\* `if name_query:' ..., the category filter unless Category.DoesNotExist,
\* and `if gender and gender != 'all':'
AppliedFilters(params) ==
    (IF params.search # <<>> THEN {"search"} ELSE {})
    \cup {f \in TextParams : params.text[f] # <<>>}
    \cup (IF selected_category(params) \in Categories THEN {"category"} ELSE {})
    \cup (IF params.gender \notin {"", "all"} THEN {"gender"} ELSE {})

\* the voters the filtered queryset holds
PageVoters(par, rows, cats, params) ==
    {id \in DOMAIN rows :
        /\ params.search # <<>> =>
              \E c \in SearchColumns : icontains(rows[id][c], params.search)
        /\ \A f \in TextParams :
              params.text[f] # <<>> => icontains(rows[id][f], params.text[f])
        /\ selected_category(params) \in Categories =>
              cats[id] \in Range(Append(
                  get_category_descendants(par, selected_category(params)),
                  selected_category(params)))
        /\ params.gender \notin {"", "all"} => voterGender(id) = params.gender}

\* has_filters = any([search_query, name_query, ..., upazila_id, union_id,
\* voter_area_id, gender and gender != 'all'])
has_filters(params) ==
    \/ params.search # <<>>
    \/ \E f \in TextParams : params.text[f] # <<>>
    \/ params.upazila # NoParam
    \/ params.union # NoParam
    \/ params.voter_area # NoParam
    \/ params.gender \notin {"", "all"}

\* page_obj: None without filters, else the page of the paginator (50 rows
\* a page; the stores of the model fit on the first page)
NoPageObj == [none |-> TRUE, voters |-> {}]
Page(voters) == [none |-> FALSE, voters |-> voters]

\* advanced_voter_search(request): the view runs on every call; no
\* decorator stands before it and it reads no counter
advanced_voter_search(meta, params) ==
    /\ TotalCalls < MaxCalls
    /\ log' = [log EXCEPT ![<<"advanced_voter_search", ClientIp(meta)>>] =
                  Append(@, Admitted(now))]
    /\ pageRes' = [requested |-> TRUE, params |-> params,
                   applied |-> AppliedFilters(params),
                   has_filters |-> has_filters(params),
                   page_obj |-> IF has_filters(params)
                                THEN Page(PageVoters(parent, voterRows, voterCat,
                                                     params))
                                ELSE NoPageObj]
    /\ UNCHANGED <<now, cache, rpc, rcall>>
    /\ UNCHANGED <<db, voterRows, voterCat, searchRes, suggestRes, highlighted>>
    /\ UNCHANGED <<statusVars, scopeVars>>

NextGate ==
    \/ \E e \in Endpoints, m \in Metas : wrapper(e, m)
    \/ \E m \in Metas : advanced_voter_search(m, NoParams)
    \/ Tick

SpecGate == InitRate /\ [][NextGate]_vars

\* the limit the specification configures for a handler
ConfiguredLimit(endpoint) ==
    IF endpoint = "advanced_voter_search" THEN PageRPM
    ELSE requests_per_minute(endpoint)

\* C18: every handler is gated by the rate limiter: with N the limit
\* configured for the handler, the (N+1)th call of a client within one
\* window is rejected; so it is for the public page advanced_voter_search.
C18_EveryHandlerGated ==
    \A k \in Callers :
        LET L == log[k]
            N == ConfiguredLimit(k[1])
        IN  \A i \in 1 .. Len(L) :
                (FreshAt(L, i) /\ i + N <= Len(L) /\ L[i + N].t < L[i].t + WINDOW) =>
                    L[i + N].status = 429

---------------------------------------------------------------------------
(* SpecRateConc: the wrapper statement by statement; cache.get and        *)
(* cache.set are two separate calls with nothing held in between          *)

RInFlight == {w \in Workers : rpc[w] = "read"}

\* ip = ...; cache_key = ...; request_count = cache.get(cache_key, 0)
RGet(w, endpoint, meta) ==
    /\ rpc[w] = "idle"
    /\ TotalCalls + Cardinality(RInFlight) < MaxCalls
    /\ rcall' = [rcall EXCEPT ![w] =
                   [endpoint |-> endpoint, ip |-> ClientIp(meta),
                    request_count |->
                        CacheGet(cache, cache_key(endpoint, ClientIp(meta)), now)]]
    /\ rpc' = [rpc EXCEPT ![w] = "read"]
    /\ UNCHANGED <<now, cache, log>>
    /\ UNCHANGED <<statusVars, scopeVars, searchVars>>

\* `if request_count >= requests_per_minute: return JsonResponse(..., status=429)'
RReject(w) ==
    /\ rpc[w] = "read"
    /\ Exceeded(rcall[w].request_count, requests_per_minute(rcall[w].endpoint))
    /\ log' = [log EXCEPT ![cache_key(rcall[w].endpoint, rcall[w].ip)] =
                  Append(@, Rejected(now))]
    /\ rpc' = [rpc EXCEPT ![w] = "idle"]
    /\ rcall' = [rcall EXCEPT ![w] = RIdle]
    /\ UNCHANGED <<now, cache>>
    /\ UNCHANGED <<statusVars, scopeVars, searchVars>>

\* cache.set(cache_key, request_count + 1, 60); return view_func(request)
RSet(w) ==
    /\ rpc[w] = "read"
    /\ ~Exceeded(rcall[w].request_count, requests_per_minute(rcall[w].endpoint))
    /\ cache' = CacheSet(cache, cache_key(rcall[w].endpoint, rcall[w].ip),
                         rcall[w].request_count + 1, WINDOW, now)
    /\ log' = [log EXCEPT ![cache_key(rcall[w].endpoint, rcall[w].ip)] =
                  Append(@, Admitted(now))]
    /\ rpc' = [rpc EXCEPT ![w] = "idle"]
    /\ rcall' = [rcall EXCEPT ![w] = RIdle]
    /\ UNCHANGED now
    /\ UNCHANGED <<statusVars, scopeVars, searchVars>>

NextRateConc ==
    \/ \E w \in Workers :
          \/ \E e \in Endpoints, m \in Metas : RGet(w, e, m)
          \/ RReject(w)
          \/ RSet(w)
    \/ Tick

SpecRateConc == InitRate /\ [][NextRateConc]_vars

\* the calls of L admitted in the window of 60 time units that starts with call i
AdmittedInWindow(L, i) ==
    {j \in i .. Len(L) : L[j].status = 200 /\ L[j].t < L[i].t + WINDOW}

\* C5: under any interleaving of calls for one key, the calls admitted
\* within one window never outnumber the limit of the endpoint.
C5_NeverOverAdmits ==
    \A k \in Keys :
        \A i \in 1 .. Len(log[k]) :
            Cardinality(AdmittedInWindow(log[k], i)) <= requests_per_minute(k[1])

---------------------------------------------------------------------------
(* SpecScope: the category filter of voter_list over every category tree *)

InitScopeTree ==
    /\ parent \in {par \in [Categories -> Categories \cup {NoParent}] : Acyclic(par)}
    /\ scopeReq = NoSuchCategory
    /\ scopeIds = NoFilter
    /\ catRows = <<>>
    /\ trav = NoCall

InitScope == InitStatusVars /\ InitRateVars /\ InitScopeTree /\ InitSearchVars

\* voter_list, `if selected_category_id:' ... `except Category.DoesNotExist: pass'
\* (category_detail and advanced_voter_search build the same list)
ApplyCategoryFilter(selected_category_id) ==
    /\ scopeReq' = selected_category_id
    /\ IF selected_category_id \in Categories
       THEN scopeIds' = Append(get_category_descendants(parent, selected_category_id),
                               selected_category_id)
       ELSE scopeIds' = NoFilter
    /\ UNCHANGED <<parent, catRows, trav>>
    /\ UNCHANGED <<statusVars, rateVars, searchVars>>

NextScope ==
    \E id \in Categories \cup {NoSuchCategory} : ApplyCategoryFilter(id)

SpecScope == InitScope /\ [][NextScope]_vars

\* C6: in every acyclic category tree the scope computed for a category n is
\* n together with exactly the categories that have n among their ancestors;
\* for a category without children it is {n}.
C6_ScopeIsSubtree ==
    scopeReq \in Categories =>
        /\ Range(scopeIds) =
              {scopeReq} \cup {m \in Categories :
                                  scopeReq \in Range(get_ancestors(parent, m))}
        /\ (\A m \in Categories : parent[m] # scopeReq) =>
              Range(scopeIds) = {scopeReq}

\* the scope of a category with a grandchild has been computed
C6_Witness ==
    /\ scopeReq \in Categories
    /\ \E m \in Categories :
          /\ parent[m] # NoParent
          /\ parent[m] # scopeReq
          /\ parent[parent[m]] = scopeReq
          /\ m \in Range(scopeIds)

---------------------------------------------------------------------------
(* SpecSearch: the ranked searches api_search_voters (views.py) and       *)
(* public_api_search_voters (public_views.py) over every store of at most *)
(* MaxRecords rows of the pool                                            *)

\* the stores: rows of the pool in any number up to MaxRecords (a row may
\* occur twice: the import checks no duplicates)
Stores ==
    UNION { { [i \in 1 .. n |-> Pool[ix[i]]] :
                ix \in {f \in [1 .. n -> 1 .. Len(Pool)] :
                           \A i \in 1 .. n - 1 : f[i] <= f[i + 1]} } :
            n \in 0 .. MaxRecords }

InitSearch ==
    /\ InitStatusVars /\ InitRateVars /\ InitScopeVars
    /\ db \in Backends
    /\ voterRows \in Stores
    /\ voterCat = [id \in DOMAIN voterRows |-> 1]
    /\ searchRes = NoSearch
    /\ suggestRes = NoSuggest
    /\ pageRes = NoPage
    /\ highlighted = NoHighlight

HARD_CAP_AUTH == 50
HARD_CAP_PUBLIC == 20

\* the order of two texts under the collation of the backend
TextLess(backend, x, y) ==
    LET a == IF CaseBlind(backend) THEN LowerStr(x) ELSE x
        c == IF CaseBlind(backend) THEN LowerStr(y) ELSE y
    IN  \E i \in 1 .. Min(Len(a), Len(c)) + 1 :
            /\ SubSeq(a, 1, i - 1) = SubSeq(c, 1, i - 1)
            /\ \/ i > Len(a) /\ i <= Len(c)
               \/ i <= Len(a) /\ i <= Len(c) /\ CharCode(a[i]) < CharCode(c[i])

\* ORDER BY column ASC: x may stand before y
AscLeq(backend, x, y) ==
    IF x = NULL \/ y = NULL
    THEN \/ x = NULL /\ y = NULL
         \/ x = NULL /\ NullsFirst(backend)
         \/ y = NULL /\ ~NullsFirst(backend)
    ELSE ~TextLess(backend, y, x)

\* the numeric branch of both views:
\* Voter.objects.filter(Q(voter_no__icontains=query))
NumericFilter(r, q) == icontains(r.voter_no, q)
\* and its Case(When(voter_no__exact ...), ...)
NumericRelevanceSwapped(r, q) ==
    IF exact(r.voter_no, q) THEN 100
    ELSE IF startswith(r.voter_no, q) THEN 70
    ELSE IF icontains(r.voter_no, q) THEN 90
    ELSE 50
NumericRelevance(r, q) ==
    IF exact(r.voter_no, q) THEN 100
    ELSE IF startswith(r.voter_no, q) THEN 90
    ELSE IF icontains(r.voter_no, q) THEN 70
    ELSE 50

\* api_search_voters, text branch: the filter
AuthFilterNoAddress(r, q) ==
    \/ icontains(r.name, q)
    \/ icontains(r.father, q)
    \/ icontains(r.mother, q)
    \/ icontains(r.voter_no, q)
    \/ icontains(r.search_text, LowerStr(q))
AuthFilter(r, q) ==
    \/ icontains(r.name, q)
    \/ icontains(r.father, q)
    \/ icontains(r.mother, q)
    \/ icontains(r.voter_no, q)
    \/ icontains(r.address, q)
    \/ icontains(r.search_text, LowerStr(q))

\* api_search_voters, text branch: the relevance annotation
AuthRelevanceSwapped(r, q) ==
    IF iexact(r.name, q) THEN 100
    ELSE IF istartswith(r.name, q) THEN 90
    ELSE IF icontains(r.name, q) THEN 80
    ELSE IF icontains(r.voter_no, q) THEN 75
    ELSE IF icontains(r.father, q) THEN 60
    ELSE IF icontains(r.mother, q) THEN 60
    ELSE IF istartswith(r.father, q) THEN 70
    ELSE IF istartswith(r.mother, q) THEN 70
    ELSE IF icontains(r.address, q) THEN 50
    ELSE 40
AuthRelevance(r, q) ==
    IF iexact(r.name, q) THEN 100
    ELSE IF istartswith(r.name, q) THEN 90
    ELSE IF icontains(r.name, q) THEN 80
    ELSE IF icontains(r.voter_no, q) THEN 75
    ELSE IF istartswith(r.father, q) THEN 70
    ELSE IF istartswith(r.mother, q) THEN 70
    ELSE IF icontains(r.father, q) THEN 60
    ELSE IF icontains(r.mother, q) THEN 60
    ELSE IF icontains(r.address, q) THEN 50
    ELSE 40

\* public_api_search_voters, text branch: the filter
PublicFilter(r, q) ==
    \/ icontains(r.name, q)
    \/ icontains(r.father, q)
    \/ icontains(r.mother, q)
    \/ icontains(r.voter_no, q)

\* public_api_search_voters, text branch: the relevance annotation
PublicRelevance(r, q) ==
    IF iexact(r.name, q) THEN 100
    ELSE IF istartswith(r.name, q) THEN 90
    ELSE IF icontains(r.name, q) THEN 80
    ELSE IF icontains(r.voter_no, q) THEN 75
    ELSE IF istartswith(r.father, q) THEN 70
    ELSE IF istartswith(r.mother, q) THEN 70
    ELSE 40

\* the relevance the view of `endpoint' annotates row r with
Relevance(endpoint, r, q) ==
    IF isdigit(q) THEN NumericRelevance(r, q)
    ELSE IF endpoint = "api_search_voters" THEN AuthRelevance(r, q)
    ELSE PublicRelevance(r, q)

\* the rows the view of `endpoint' selects
Candidates(endpoint, rows, q) ==
    {id \in DOMAIN rows :
        IF isdigit(q) THEN NumericFilter(rows[id], q)
        ELSE IF endpoint = "api_search_voters" THEN AuthFilter(rows[id], q)
        ELSE PublicFilter(rows[id], q)}

\* the column of the second ORDER BY term: 'voter_no' or 'name'
OrderColumn(r, q) == IF isdigit(q) THEN r.voter_no ELSE r.name

\* .order_by('-relevance', column): row x may stand before row y
AscendingRelevance(endpoint, backend, rows, q, x, y) ==
    \/ Relevance(endpoint, rows[x], q) < Relevance(endpoint, rows[y], q)
    \/ /\ Relevance(endpoint, rows[x], q) = Relevance(endpoint, rows[y], q)
       /\ AscLeq(backend, OrderColumn(rows[x], q), OrderColumn(rows[y], q))
MayPrecede(endpoint, backend, rows, q, x, y) ==
    \/ Relevance(endpoint, rows[x], q) > Relevance(endpoint, rows[y], q)
    \/ /\ Relevance(endpoint, rows[x], q) = Relevance(endpoint, rows[y], q)
       /\ AscLeq(backend, OrderColumn(rows[x], q), OrderColumn(rows[y], q))

\* the orders in which the database may return the selected rows: rows that
\* tie on both ORDER BY terms come in any order
Orderings(endpoint, backend, rows, q) ==
    LET S == Candidates(endpoint, rows, q)
    IN  {f \in [1 .. Cardinality(S) -> S] :
            /\ \A i, j \in DOMAIN f : i # j => f[i] # f[j]
            /\ \A i, j \in DOMAIN f :
                  i < j => MayPrecede(endpoint, backend, rows, q, f[i], f[j])}

\* queryset[:limit]
SliceAll(f, limit) == f
Slice(f, limit) == SubSeq(f, 1, Min(limit, Len(f)))

\* the responses the view of `endpoint' may give: min_len is the shortest
\* query it serves, cap the most rows it returns.  The view reads q and
\* limit (and mode) from the request and nothing else: a scope identifier
\* the request carries (scope_param) reaches no filter.  The early return
\* for a short query carries no has_more key (has_flag).
Responses(endpoint, q, limit_param, scope_param, min_len, cap) ==
    LET limit == Min(limit_param, cap)
    IN  IF Len(q) < min_len
        THEN { [endpoint |-> endpoint, q |-> q, requested |-> limit_param,
                scope |-> scope_param, limit |-> limit,
                voters |-> <<>>, count |-> 0,
                has_flag |-> FALSE, has_more |-> FALSE,
                ranked |-> FALSE] }
        ELSE { [endpoint |-> endpoint, q |-> q, requested |-> limit_param,
                scope |-> scope_param, limit |-> limit,
                voters |-> Slice(f, limit),
                count |-> Len(Slice(f, limit)),
                has_flag |-> TRUE,
                has_more |-> (Len(Slice(f, limit)) = limit),
                ranked |-> TRUE] :
               f \in Orderings(endpoint, db, voterRows, q) }

\* no request is being answered yet (a search or a suggestion request reads
\* the store and writes nothing: one request per behaviour shows them all)
NoRequestYet == searchRes = NoSearch /\ suggestRes = NoSuggest

\* api_search_voters(request) with q, limit and a scope identifier as given
api_search_voters(q, limit_param, scope_param) ==
    /\ NoRequestYet
    /\ searchRes' \in Responses("api_search_voters", q, limit_param, scope_param,
                                1, HARD_CAP_AUTH)
    /\ UNCHANGED <<db, voterRows, voterCat, suggestRes, highlighted, pageRes>>
    /\ UNCHANGED <<statusVars, rateVars, scopeVars>>

\* public_api_search_voters(request) with q, limit and a scope identifier
public_api_search_voters(q, limit_param, scope_param) ==
    /\ NoRequestYet
    /\ searchRes' \in Responses("public_api_search_voters", q, limit_param,
                                scope_param, 2, HARD_CAP_PUBLIC)
    /\ UNCHANGED <<db, voterRows, voterCat, suggestRes, highlighted, pageRes>>
    /\ UNCHANGED <<statusVars, rateVars, scopeVars>>

NextSearch ==
    \/ \E q \in Queries, l \in LimitParams : api_search_voters(q, l, NoParam)
    \/ \E q \in Queries, l \in LimitParams : public_api_search_voters(q, l, NoParam)

SpecSearch == InitSearch /\ [][NextSearch]_vars

\* the row at position i of the response
Hit(i) == voterRows[searchRes.voters[i]]
Hits == DOMAIN searchRes.voters
TextSearchDone ==
    searchRes # NoSearch /\ searchRes.q # <<>> /\ ~isdigit(searchRes.q)
NumericSearchDone == searchRes # NoSearch /\ isdigit(searchRes.q)

\* C7: the response to a non-numeric query is in descending order of the
\* relevance, rows of equal relevance in ascending order of name; so every
\* returned row whose name equals the query, letter case aside, stands
\* before every returned row whose name does not.
C7_ScoreThenName ==
    TextSearchDone =>
        /\ \A i, j \in Hits :
              i < j =>
                LET si == Relevance(searchRes.endpoint, Hit(i), searchRes.q)
                    sj == Relevance(searchRes.endpoint, Hit(j), searchRes.q)
                IN  \/ si > sj
                    \/ si = sj /\ AscLeq(db, Hit(i).name, Hit(j).name)
        /\ \A i, j \in Hits :
              (/\ Hit(i).name # NULL
               /\ LowerStr(Hit(i).name) = LowerStr(searchRes.q)
               /\ (Hit(j).name = NULL
                      \/ LowerStr(Hit(j).name) # LowerStr(searchRes.q))) => i < j

\* two rows were returned, the first named as the query, the second not
C7_Witness ==
    /\ TextSearchDone
    /\ Len(searchRes.voters) = 2
    /\ iexact(Hit(1).name, searchRes.q)
    /\ ~iexact(Hit(2).name, searchRes.q)

\* how a voter_no matches a numeric query: 3 equal, 2 prefix, 1 inside only
NumericClass(vn, q) ==
    IF vn = q THEN 3 ELSE IF StartsWith(vn, q) THEN 2 ELSE 1

\* C8: the response to a query of digits holds only rows whose voter_no
\* contains the query; a row whose voter_no equals it stands before every
\* row that matches by prefix only, which stands before every row that
\* matches inside only; rows that match alike are in ascending voter_no order.
C8_NumericByVoterNo ==
    NumericSearchDone =>
        /\ \A i \in Hits :
              Hit(i).voter_no # NULL /\ Contains(Hit(i).voter_no, searchRes.q)
        /\ \A i, j \in Hits :
              NumericClass(Hit(i).voter_no, searchRes.q)
                 > NumericClass(Hit(j).voter_no, searchRes.q) => i < j
        /\ \A i, j \in Hits :
              (/\ i < j
               /\ NumericClass(Hit(i).voter_no, searchRes.q)
                     = NumericClass(Hit(j).voter_no, searchRes.q))
                 => AscLeq(db, Hit(i).voter_no, Hit(j).voter_no)

\* a prefix match was returned before a match inside the number
C8_Witness ==
    /\ NumericSearchDone
    /\ Len(searchRes.voters) = 2
    /\ NumericClass(Hit(1).voter_no, searchRes.q) = 2
    /\ NumericClass(Hit(2).voter_no, searchRes.q) = 1

\* the highest rule of the table of the specification that applies to row r
Highest(S) == CHOOSE x \in S : \A y \in S : y <= x
TableScore(r, q) ==
    Highest({40}
        \cup (IF iexact(r.name, q) THEN {100} ELSE {})
        \cup (IF istartswith(r.name, q) THEN {90} ELSE {})
        \cup (IF icontains(r.name, q) THEN {80} ELSE {})
        \cup (IF icontains(r.voter_no, q) THEN {75} ELSE {})
        \cup (IF istartswith(r.father, q) \/ istartswith(r.mother, q) THEN {70} ELSE {})
        \cup (IF icontains(r.father, q) \/ icontains(r.mother, q) THEN {60} ELSE {})
        \cup (IF icontains(r.address, q) THEN {50} ELSE {}))
\* the same table without its two rules below 70
ShortTableScore(r, q) ==
    Highest({40}
        \cup (IF iexact(r.name, q) THEN {100} ELSE {})
        \cup (IF istartswith(r.name, q) THEN {90} ELSE {})
        \cup (IF icontains(r.name, q) THEN {80} ELSE {})
        \cup (IF icontains(r.voter_no, q) THEN {75} ELSE {})
        \cup (IF istartswith(r.father, q) \/ istartswith(r.mother, q) THEN {70} ELSE {}))

SearchCandidates == Candidates(searchRes.endpoint, voterRows, searchRes.q)

\* C9 as claimed: in both searches the relevance of every candidate of a
\* non-numeric query is the highest applicable rule of the table 100, 90,
\* 80, 75, 70, 60, 50, otherwise 40.
C9_TableScoreInBoth ==
    (TextSearchDone /\ searchRes.ranked) =>
        \A id \in SearchCandidates :
            Relevance(searchRes.endpoint, voterRows[id], searchRes.q)
                = TableScore(voterRows[id], searchRes.q)

\* C9 as amended: the authenticated search scores every candidate by the
\* highest applicable rule of the table; the public search has no rule for
\* father or mother containing the query (60) and none for address (50):
\* it scores by the highest applicable rule among 100, 90, 80, 75 and 70,
\* otherwise 40.
C9_TableScorePerEndpoint ==
    (TextSearchDone /\ searchRes.ranked) =>
        \A id \in SearchCandidates :
            Relevance(searchRes.endpoint, voterRows[id], searchRes.q)
                = IF searchRes.endpoint = "api_search_voters"
                  THEN TableScore(voterRows[id], searchRes.q)
                  ELSE ShortTableScore(voterRows[id], searchRes.q)

\* the public search returned a row that only its father or mother rule of 60
\* would lift above 40
C9_Witness ==
    /\ TextSearchDone
    /\ searchRes.endpoint = "public_api_search_voters"
    /\ \E i \in Hits :
          /\ TableScore(Hit(i), searchRes.q) = 60
          /\ Relevance(searchRes.endpoint, Hit(i), searchRes.q) = 40

AnyOfFive(r, q) ==
    \/ Contains(LowerStr(OrEmpty(r.name)), LowerStr(q))
    \/ Contains(LowerStr(OrEmpty(r.father)), LowerStr(q))
    \/ Contains(LowerStr(OrEmpty(r.mother)), LowerStr(q))
    \/ Contains(LowerStr(OrEmpty(r.voter_no)), LowerStr(q))
    \/ Contains(LowerStr(OrEmpty(r.address)), LowerStr(q))
AnyOfFour(r, q) ==
    \/ Contains(LowerStr(OrEmpty(r.name)), LowerStr(q))
    \/ Contains(LowerStr(OrEmpty(r.father)), LowerStr(q))
    \/ Contains(LowerStr(OrEmpty(r.mother)), LowerStr(q))
    \/ Contains(LowerStr(OrEmpty(r.voter_no)), LowerStr(q))

\* row id is in the response, or the response is full
ReturnedUnlessCutOff(id) ==
    \/ \E i \in Hits : searchRes.voters[i] = id
    \/ Len(searchRes.voters) = searchRes.limit

\* C10 as claimed: in both searches, for a non-numeric query, every row in
\* which name, father, mother, voter_no or address contains the query is
\* returned unless the limit cuts it off.
C10_FiveFieldsInBoth ==
    TextSearchDone =>
        \A id \in DOMAIN voterRows :
            AnyOfFive(voterRows[id], searchRes.q) => ReturnedUnlessCutOff(id)

\* C10 as amended: the authenticated search returns (unless the limit cuts
\* it off) every row in which name, father, mother, voter_no or address
\* contains the query; the public search serves queries of two characters
\* or more and returns exactly rows in which name, father, mother or
\* voter_no contains the query, so a row that matches in address only is a
\* candidate of the authenticated search alone.
C10_FieldsPerEndpoint ==
    TextSearchDone =>
        IF searchRes.endpoint = "api_search_voters"
        THEN \A id \in DOMAIN voterRows :
                AnyOfFive(voterRows[id], searchRes.q) => ReturnedUnlessCutOff(id)
        ELSE /\ Len(searchRes.q) >= 2 =>
                   \A id \in DOMAIN voterRows :
                       AnyOfFour(voterRows[id], searchRes.q) => ReturnedUnlessCutOff(id)
             /\ \A i \in Hits : AnyOfFour(Hit(i), searchRes.q)

\* the authenticated search returned a row that matches in address only
C10_Witness ==
    /\ TextSearchDone
    /\ searchRes.endpoint = "api_search_voters"
    /\ \E i \in Hits :
          /\ AnyOfFive(Hit(i), searchRes.q)
          /\ ~AnyOfFour(Hit(i), searchRes.q)
          /\ Hit(i).search_text = NULL

---------------------------------------------------------------------------
(* The suggestion endpoints: api_search_suggestions (views.py) and        *)
(* public_api_suggestions (public_views.py)                               *)

SUGGEST_CAP_AUTH == 15
SUGGEST_CAP_PUBLIC == 10

allowed_fields == {"name", "father", "mother", "address"}
\* `if field not in allowed_fields: field = 'name''
ValidField(field) == IF field \in allowed_fields THEN field ELSE "name"

\* the column of row r that values_list(field) reads
FieldOf(r, field) ==
    CASE field = "name" -> r.name
      [] field = "father" -> r.father
      [] field = "mother" -> r.mother
      [] field = "address" -> r.address

\* str.strip()
RECURSIVE lstrip(_)
lstrip(t) == IF t # <<>> /\ Head(t) = " " THEN lstrip(Tail(t)) ELSE t
RECURSIVE rstrip(_)
rstrip(t) ==
    IF t # <<>> /\ t[Len(t)] = " " THEN rstrip(SubSeq(t, 1, Len(t) - 1)) ELSE t
strip(t) == rstrip(lstrip(t))

\* the order of Python on str: by code point, a proper prefix first
PyLess(a, b) ==
    \E i \in 1 .. Min(Len(a), Len(b)) + 1 :
        /\ SubSeq(a, 1, i - 1) = SubSeq(b, 1, i - 1)
        /\ \/ i > Len(a) /\ i <= Len(b)
           \/ i <= Len(a) /\ i <= Len(b) /\ CharCode(a[i]) < CharCode(b[i])

\* the category filter of the suggestion views, `if voter_area_id: ... elif
\* union_id: ... elif upazila_id: ...': the category ids the voters are
\* filtered by, or no filter
NoScopeFilter == [applied |-> FALSE, ids |-> {}]
ScopeFilter(ids) == [applied |-> TRUE, ids |-> ids]
ChildIds(par, S) == {c \in Categories : par[c] \in S}
SuggestScope(par, upazila_id, union_id, voter_area_id) ==
    IF voter_area_id # NoParam
    THEN \* voters.filter(category_id=voter_area_id)
         ScopeFilter({voter_area_id})
    ELSE IF union_id # NoParam
    THEN IF union_id \in Categories
         THEN ScopeFilter(ChildIds(par, {union_id}) \cup {union_id})
         ELSE NoScopeFilter
    ELSE IF upazila_id # NoParam
    THEN IF upazila_id \in Categories
         THEN LET union_ids == ChildIds(par, {upazila_id})
                  voter_area_ids == ChildIds(par, union_ids)
              IN  ScopeFilter(union_ids \cup voter_area_ids \cup {upazila_id})
         ELSE NoScopeFilter
    ELSE NoScopeFilter

\* the rows left by the category filter and by field__icontains=query
SuggestRows(scope, field, q) ==
    {id \in DOMAIN voterRows :
        /\ scope.applied => voterCat[id] \in scope.ids
        /\ icontains(FieldOf(voterRows[id], field), q)}

\* values_list(field, flat=True).distinct(): every value of the rows once,
\* in an order the query does not fix; a collation blind to letter case
\* keeps one of the values that differ by case only
SameValue(backend, x, y) ==
    IF CaseBlind(backend) THEN LowerStr(x) = LowerStr(y) ELSE x = y
DistinctValues(backend, vals) ==
    LET n == Cardinality({IF CaseBlind(backend) THEN LowerStr(v) ELSE v : v \in vals})
    IN  {f \in [1 .. n -> vals] :
            \A i, j \in 1 .. n : i # j => ~SameValue(backend, f[i], f[j])}

\* the loop over unique_values: `seen', `suggestions' and the break
RECURSIVE Dedupe(_, _, _, _)
Dedupe(values, limit, seen, suggestions) ==
    IF values = <<>> THEN suggestions
    ELSE LET value == Head(values)
             value_lower == LowerStr(value)
         IN  IF value # <<>> /\ strip(value) # <<>> /\ value_lower \notin seen
             THEN LET appended == Append(suggestions, strip(value))
                  IN  IF Len(appended) >= limit THEN appended
                      ELSE Dedupe(Tail(values), limit,
                                  seen \cup {value_lower}, appended)
             ELSE Dedupe(Tail(values), limit, seen, suggestions)

\* the sort key: (0 if text.lower().startswith(query_lower) else 1, text.lower())
Group(q, text) == IF StartsWith(LowerStr(text), LowerStr(q)) THEN 0 ELSE 1
KeyLessNoGroup(q, x, y) == PyLess(LowerStr(x), LowerStr(y))
KeyLess(q, x, y) ==
    \/ Group(q, x) < Group(q, y)
    \/ Group(q, x) = Group(q, y) /\ PyLess(LowerStr(x), LowerStr(y))

\* suggestions.sort(key=...): list.sort is stable
RECURSIVE SortSuggestions(_, _)
SortSuggestions(q, texts) ==
    IF texts = <<>> THEN <<>>
    ELSE LET sorted == SortSuggestions(q, SubSeq(texts, 1, Len(texts) - 1))
             x == texts[Len(texts)]
             n == Cardinality({i \in DOMAIN sorted : ~KeyLess(q, x, sorted[i])})
         IN  SubSeq(sorted, 1, n) \o <<x>> \o SubSeq(sorted, n + 1, Len(sorted))

\* the responses a suggestion view may give; cap is the most it returns
SuggestResponses(endpoint, q, field_param, limit_param, upazila_id, union_id, voter_area_id, cap) ==
    LET limit == Min(limit_param, cap)
        field == ValidField(field_param)
        scope == SuggestScope(parent, upazila_id, union_id, voter_area_id)
        vals == {FieldOf(voterRows[id], field) : id \in SuggestRows(scope, field, q)}
        req == [upazila |-> upazila_id, union |-> union_id,
                voter_area |-> voter_area_id]
    IN  IF Len(q) < 2
        THEN { [endpoint |-> endpoint, q |-> q, field |-> field_param,
                limit |-> limit, request |-> req, served |-> FALSE,
                scope |-> NoScopeFilter, suggestions |-> <<>>] }
        ELSE { [endpoint |-> endpoint, q |-> q, field |-> field,
                limit |-> limit, request |-> req, served |-> TRUE,
                scope |-> scope,
                suggestions |->
                    SortSuggestions(q, Dedupe(Slice(unique_values, limit * 2),
                                              limit, {}, <<>>))] :
               unique_values \in DistinctValues(db, vals) }

\* api_search_suggestions(request)
api_search_suggestions(q, field, limit_param, upazila_id, union_id, voter_area_id) ==
    /\ NoRequestYet
    /\ suggestRes' \in SuggestResponses("api_search_suggestions", q, field,
                          limit_param, upazila_id, union_id, voter_area_id,
                          SUGGEST_CAP_AUTH)
    /\ UNCHANGED <<db, voterRows, voterCat, searchRes, highlighted, pageRes>>
    /\ UNCHANGED <<statusVars, rateVars, scopeVars>>

\* public_api_suggestions(request)
public_api_suggestions(q, field, limit_param, upazila_id, union_id, voter_area_id) ==
    /\ NoRequestYet
    /\ suggestRes' \in SuggestResponses("public_api_suggestions", q, field,
                          limit_param, upazila_id, union_id, voter_area_id,
                          SUGGEST_CAP_PUBLIC)
    /\ UNCHANGED <<db, voterRows, voterCat, searchRes, highlighted, pageRes>>
    /\ UNCHANGED <<statusVars, rateVars, scopeVars>>

---------------------------------------------------------------------------
(* SpecSuggest: the suggestion views over every store of at most MaxNames *)
(* rows, all in one category                                              *)

\* The rows of these stores: names that equal the query, differ from it by
\* letter case or by a leading blank (the import stores a cell as str(val),
\* untrimmed), start with it or hold it inside, and two fathers.
SuggestPool ==
    LET N == NULL
    IN  << Row(N, <<"a", "b">>, N, N, N, N, N, FALSE),
           Row(N, <<"A", "B">>, N, N, N, N, N, FALSE),
           Row(N, <<" ", "a", "b">>, N, N, N, N, N, FALSE),
           Row(N, <<"a", "b", "b">>, N, N, N, N, N, FALSE),
           Row(N, <<"b", "a", "b">>, N, N, N, N, N, FALSE),
           Row(N, <<"a", "a", "b">>, N, N, N, N, N, FALSE),
           Row(N, N, N, <<"a", "b">>, N, N, N, FALSE),
           Row(N, <<"b">>, N, <<"A", "b">>, N, N, N, FALSE) >>

SuggestStores ==
    UNION { { [i \in 1 .. n |-> SuggestPool[ix[i]]] :
                ix \in {f \in [1 .. n -> 1 .. Len(SuggestPool)] :
                           \A i \in 1 .. n - 1 : f[i] <= f[i + 1]} } :
            n \in 0 .. MaxNames }

InitSuggest ==
    /\ InitStatusVars /\ InitRateVars /\ InitScopeVars
    /\ db \in Backends
    /\ voterRows \in SuggestStores
    /\ voterCat = [id \in DOMAIN voterRows |-> 1]
    /\ searchRes = NoSearch
    /\ suggestRes = NoSuggest
    /\ pageRes = NoPage
    /\ highlighted = NoHighlight

SuggestQueries == { <<"a">>, <<"a", "b">> }
SuggestFields == {"name", "father", "bogus"}
SuggestLimits == {1, 2, 100}

NextSuggest ==
    \/ \E q \in SuggestQueries, f \in SuggestFields, l \in SuggestLimits :
          api_search_suggestions(q, f, l, NoParam, NoParam, NoParam)
    \/ \E q \in SuggestQueries, f \in SuggestFields, l \in SuggestLimits :
          public_api_suggestions(q, f, l, NoParam, NoParam, NoParam)

SpecSuggest == InitSuggest /\ [][NextSuggest]_vars

SuggestDone == suggestRes # NoSuggest /\ suggestRes.served
Texts == suggestRes.suggestions

\* C13: a suggestion list never holds two entries whose texts are equal or
\* differ only by letter case.
C13_NoCaseDuplicates ==
    SuggestDone =>
        \A i, j \in DOMAIN Texts :
            i # j => LowerStr(Texts[i]) # LowerStr(Texts[j])

\* the text of an entry starts with the query, letter case aside
IsPrefixEntry(i) == StartsWith(LowerStr(Texts[i]), LowerStr(suggestRes.q))

\* C14: in a suggestion list every entry whose lowercase text starts with
\* the lowercase query stands before every entry whose lowercase text does
\* not, and within each of the two groups the entries are in ascending
\* lexicographic order of their lowercase text.
C14_PrefixFirstThenSorted ==
    SuggestDone =>
        /\ \A i, j \in DOMAIN Texts :
              (IsPrefixEntry(i) /\ ~IsPrefixEntry(j)) => i < j
        /\ \A i, j \in DOMAIN Texts :
              (i < j /\ (IsPrefixEntry(i) <=> IsPrefixEntry(j))) =>
                  ~PyLess(LowerStr(Texts[j]), LowerStr(Texts[i]))

\* a list of two entries that start with the query and a third that holds
\* it inside and would sort first by its text alone
C14_Witness ==
    /\ SuggestDone
    /\ Len(Texts) = 3
    /\ IsPrefixEntry(1) /\ IsPrefixEntry(2) /\ ~IsPrefixEntry(3)
    /\ PyLess(LowerStr(Texts[1]), LowerStr(Texts[2]))
    /\ PyLess(LowerStr(Texts[3]), LowerStr(Texts[1]))

---------------------------------------------------------------------------
(* SpecVariants: the suggestion views over stores whose names are         *)
(* spellings of one name in different letter case, and one other name     *)

VariantPool ==
    LET N == NULL
    IN  << Row(N, <<"a", "b">>, N, N, N, N, N, FALSE),
           Row(N, <<"A", "B">>, N, N, N, N, N, FALSE),
           Row(N, <<"A", "b">>, N, N, N, N, N, FALSE),
           Row(N, <<"a", "B">>, N, N, N, N, N, FALSE),
           Row(N, <<"a", "b", "b">>, N, N, N, N, N, FALSE) >>

\* every selection of rows of the pool, in the order of the pool
VariantStores ==
    { [i \in 1 .. Cardinality(S) |-> VariantPool[SortedSeq(S)[i]]] :
        S \in SUBSET (1 .. Len(VariantPool)) }

InitVariants ==
    /\ InitStatusVars /\ InitRateVars /\ InitScopeVars
    /\ db \in Backends
    /\ voterRows \in VariantStores
    /\ voterCat = [id \in DOMAIN voterRows |-> 1]
    /\ searchRes = NoSearch
    /\ suggestRes = NoSuggest
    /\ pageRes = NoPage
    /\ highlighted = NoHighlight

VariantQuery == <<"a", "b">>
VariantLimits == {1, 2}

NextVariants ==
    \/ \E l \in VariantLimits :
          api_search_suggestions(VariantQuery, "name", l, NoParam, NoParam, NoParam)
    \/ \E l \in VariantLimits :
          public_api_suggestions(VariantQuery, "name", l, NoParam, NoParam, NoParam)

SpecVariants == InitVariants /\ [][NextVariants]_vars

\* the non-blank values of the field that match the query within the
\* scope of the request, letter case aside
MatchingValues ==
    {LowerStr(FieldOf(voterRows[id], suggestRes.field)) :
        id \in {i \in SuggestRows(suggestRes.scope, suggestRes.field, suggestRes.q) :
                  strip(FieldOf(voterRows[i], suggestRes.field)) # <<>>}}

\* C26: the working set of 2 x limit values keeps the truncation from
\* losing entries: whenever at least `limit' non-blank values of the field
\* that are distinct letter case aside match the query within the scope,
\* the suggestion view returns exactly `limit' entries.
C26_FullListWhenEnoughValues ==
    SuggestDone =>
        (Cardinality(MatchingValues) >= suggestRes.limit =>
            Len(Texts) = suggestRes.limit)

---------------------------------------------------------------------------
(* SpecScoped: requests that carry a category scope identifier, over      *)
(* every category forest, the store holding one voter in every category   *)

\* the scope of the specification: n and its transitive descendants
Subtree(par, n) ==
    {n} \cup {m \in Categories : n \in Range(get_ancestors(par, m))}

\* one voter per category: the voter of category c is row c + 1 of the pool
\* (the rows named ab, AB, abb, bab, b, ...)
InitScoped ==
    /\ InitStatusVars /\ InitRateVars /\ InitScopeTree
    /\ db = "sqlite3"
    /\ voterRows = [c \in Categories |-> Pool[c + 1]]
    /\ voterCat = [c \in Categories |-> c]
    /\ searchRes = NoSearch
    /\ suggestRes = NoSuggest
    /\ pageRes = NoPage
    /\ highlighted = NoHighlight

ScopedQuery == <<"a", "b">>
ScopeParams == Categories \cup {NoSuchCategory}

\* the request carries id in the scope parameter named `name' and no other
ParamOf(name, carried, id) == IF name = carried THEN id ELSE NoParam
ScopeParamNames == {"upazila", "union", "voter_area"}

NextScoped ==
    \/ \E id \in ScopeParams : api_search_voters(ScopedQuery, 100, id)
    \/ \E id \in ScopeParams : public_api_search_voters(ScopedQuery, 100, id)
    \/ \E p \in ScopeParamNames, id \in ScopeParams \cup {NoParam} :
          api_search_suggestions(ScopedQuery, "name", 100,
              ParamOf("upazila", p, id), ParamOf("union", p, id),
              ParamOf("voter_area", p, id))
    \/ \E p \in ScopeParamNames, id \in ScopeParams \cup {NoParam} :
          public_api_suggestions(ScopedQuery, "name", 100,
              ParamOf("upazila", p, id), ParamOf("union", p, id),
              ParamOf("voter_area", p, id))
    \/ \E id \in ScopeParams : ApplyCategoryFilter(id)

SpecScoped == InitScoped /\ [][NextScoped]_vars

\* C11: when a ranked search is called with the identifier of a category,
\* every returned record has its category_id in the scope of that category
\* (the category and its transitive descendants).
C11_SearchWithinScope ==
    (searchRes # NoSearch /\ searchRes.scope \in Categories) =>
        \A i \in Hits : voterCat[searchRes.voters[i]] \in Subtree(parent, searchRes.scope)

\* the identifier a suggestion request carries (it carries at most one)
CarriedScope ==
    IF suggestRes.request.voter_area # NoParam THEN suggestRes.request.voter_area
    ELSE IF suggestRes.request.union # NoParam THEN suggestRes.request.union
    ELSE suggestRes.request.upazila

\* the voters a suggestion request took its candidates from, as far as
\* their category goes
ScopedVoters ==
    {v \in DOMAIN voterRows :
        suggestRes.scope.applied => voterCat[v] \in suggestRes.scope.ids}

\* C15: whichever scope parameter of a suggestion request carries the
\* identifier of an existing category n, the candidates are restricted to
\* exactly the voters whose category is n or a transitive descendant of n.
C15_SuggestScopeIsSubtree ==
    (SuggestDone /\ CarriedScope \in Categories) =>
        ScopedVoters = {v \in DOMAIN voterRows :
                           voterCat[v] \in Subtree(parent, CarriedScope)}

\* C17: a scope identifier that matches no category drops the category
\* filter: the voter list is filtered by no category, and a suggestion
\* request takes its candidates from all voters, as without the identifier.
C17_UnknownScopeDropsFilter ==
    /\ scopeReq = NoSuchCategory => scopeIds = NoFilter
    /\ (SuggestDone /\ CarriedScope = NoSuchCategory) =>
          /\ ~suggestRes.scope.applied
          /\ ScopedVoters = DOMAIN voterRows

---------------------------------------------------------------------------
(* SpecHighlight: highlight_match (views.py, public_views.py) on every    *)
(* text and query of the bounds                                           *)

\* django.utils.html.escape
EscapeChar(c) ==
    CASE c = "&" -> <<"&", "a", "m", "p", ";">>
      [] c = "<" -> <<"&", "l", "t", ";">>
      [] c = ">" -> <<"&", "g", "t", ";">>
      [] c = "\"" -> <<"&", "q", "u", "o", "t", ";">>
      [] c = "'" -> <<"&", "#", "x", "2", "7", ";">>
      [] OTHER -> <<c>>
RECURSIVE escape(_)
escape(t) == IF t = <<>> THEN <<>> ELSE EscapeChar(Head(t)) \o escape(Tail(t))

\* the two markers, each one element of the output
MarkOpen == "<mark>"
MarkClose == "</mark>"

\* pattern.sub(lambda m: f'<mark>{escape(m.group())}</mark>', s) with
\* pattern = re.compile(re.escape(query), re.IGNORECASE): the matches of the
\* literal query in s from the left, not overlapping
RECURSIVE sub(_, _)
sub(s, query) ==
    IF Len(s) < Len(query) THEN s
    ELSE IF LowerStr(SubSeq(s, 1, Len(query))) = LowerStr(query)
    THEN <<MarkOpen>> \o escape(SubSeq(s, 1, Len(query))) \o <<MarkClose>>
            \o sub(SubSeq(s, Len(query) + 1, Len(s)), query)
    ELSE <<Head(s)>> \o sub(Tail(s), query)

\* highlight_match(text, query)
highlight_match(text, query) ==
    IF text = <<>> \/ query = <<>> THEN escape(text)
    ELSE sub(escape(text), query)

HlChars == {"a", "A", "&", "<"}
TextsUpTo(n) == UNION {[1 .. k -> HlChars] : k \in 0 .. n}

InitHighlight ==
    /\ InitStatusVars /\ InitRateVars /\ InitScopeVars
    /\ db = "sqlite3"
    /\ voterRows = <<>>
    /\ voterCat = <<>>
    /\ searchRes = NoSearch
    /\ suggestRes = NoSuggest
    /\ pageRes = NoPage
    /\ highlighted \in [called : {FALSE}, text : TextsUpTo(MaxTextLen),
                        query : TextsUpTo(MaxQueryLen)]

\* a call of highlight_match(text, query) returns
HighlightCall ==
    /\ ~highlighted.called
    /\ highlighted' = [called |-> TRUE, text |-> highlighted.text,
                       query |-> highlighted.query,
                       out |-> highlight_match(highlighted.text, highlighted.query)]
    /\ UNCHANGED <<db, voterRows, voterCat, searchRes, suggestRes, pageRes>>
    /\ UNCHANGED <<statusVars, rateVars, scopeVars>>

NextHighlight == HighlightCall

SpecHighlight == InitHighlight /\ [][NextHighlight]_vars

\* the output with its markers removed
Unmarked(out) == SelectSeq(out, LAMBDA c : c \notin {MarkOpen, MarkClose})

\* what the specification asks for: the occurrences of the query in the raw
\* text, letter case aside, each between the markers, all text escaped
RECURSIVE Wrapped(_, _)
Wrapped(text, query) ==
    IF Len(text) < Len(query) THEN escape(text)
    ELSE IF LowerStr(SubSeq(text, 1, Len(query))) = LowerStr(query)
    THEN <<MarkOpen>> \o escape(SubSeq(text, 1, Len(query))) \o <<MarkClose>>
            \o Wrapped(SubSeq(text, Len(query) + 1, Len(text)), query)
    ELSE EscapeChar(Head(text)) \o Wrapped(Tail(text), query)

\* C20: for every text and non-empty query, highlight_match puts the
\* markers around every occurrence of the raw query in the text, letter
\* case aside, and escapes all text; without its markers the output is the
\* escaped text.
C20_HighlightWrapsOccurrences ==
    (highlighted.called /\ highlighted.query # <<>>) =>
        /\ highlighted.out = Wrapped(highlighted.text, highlighted.query)
        /\ Unmarked(highlighted.out) = escape(highlighted.text)


---------------------------------------------------------------------------
(* SpecStore: the voters table through its writers: import_voters_all     *)
(* (bulk_create), Voter.save from the admin change form,                  *)
(* update_voter_status and the update_search_text command                 *)

StoreNames == { <<"a", "b">>, <<"A", "B">> }
StoreVoterNo == <<"1", "2">>

\* Voter(category=..., name=..., voter_no=..., ...) as _process_excel_files
\* builds it: search_text is not among the arguments and stays NULL
ImportedRow(name) == Row(NULL, name, StoreVoterNo, NULL, NULL, NULL, NULL, FALSE)
\* the same voter written by Voter.save()
SavedRow(name) == Row(NULL, name, StoreVoterNo, NULL, NULL, NULL, NULL, TRUE)

\* a table whose voters were all written by Voter.save()
InitStore ==
    /\ InitStatusVars /\ InitRateVars /\ InitScopeVars
    /\ db = "sqlite3"
    /\ voterRows \in [Voters -> {SavedRow(n) : n \in StoreNames}]
    /\ voterCat = [v \in Voters |-> 1]
    /\ searchRes = NoSearch
    /\ suggestRes = NoSuggest
    /\ pageRes = NoPage
    /\ highlighted = NoHighlight

\* manage.py import_voters_all <dir> --clear over Excel files of NumVoters
\* rows: Voter.objects.all().delete() (the audit entries go with their
\* voters), then Voter.objects.bulk_create(voters_to_create), which inserts
\* the instances as built and never calls save().  The new rows take the
\* places of the deleted ones.
ImportVoters(names) ==
    /\ voterRows' = [v \in Voters |-> ImportedRow(names[v])]
    /\ voterStatus' = [v \in Voters |-> StatusDefault]
    /\ audits' = <<>>
    /\ UNCHANGED <<response, before, pc, call, obj>>
    /\ UNCHANGED <<rateVars, scopeVars>>
    /\ UNCHANGED <<db, voterCat, searchRes, suggestRes, highlighted, pageRes>>

\* the admin change form of a voter with a new name: Voter.save()
VoterAdminSave(pk, name) ==
    /\ voterRows' = [voterRows EXCEPT
                       ![pk] = save(@, [@ EXCEPT !.name = name], AllFields)]
    /\ UNCHANGED <<statusVars, rateVars, scopeVars>>
    /\ UNCHANGED <<db, voterCat, searchRes, suggestRes, highlighted, pageRes>>

\* manage.py update_search_text: for every voter,
\* voter.search_text = voter.build_search_text();
\* voter.save(update_fields=['search_text'])
update_search_text ==
    /\ voterRows' = [v \in DOMAIN voterRows |->
                       save(voterRows[v], voterRows[v], {"search_text"})]
    /\ UNCHANGED <<statusVars, rateVars, scopeVars>>
    /\ UNCHANGED <<db, voterCat, searchRes, suggestRes, highlighted, pageRes>>

NextStore ==
    \/ \E names \in [Voters -> StoreNames] : ImportVoters(names)
    \/ \E pk \in Voters, name \in StoreNames : VoterAdminSave(pk, name)
    \/ \E pk \in Pks, actor \in Actors, s \in PostedStatuses :
          update_voter_status(pk, actor, s)
    \/ update_search_text

SpecStore == InitStore /\ [][NextStore]_vars

\* C21: in every reachable state of the store (after a bulk import, after
\* Voter.save, after update_voter_status) the stored search_text of every
\* voter is the lowercase space-joined concatenation of its non-empty
\* serial, name, father, mother, address, voter_no and profession.
C21_SearchTextCurrent ==
    \A v \in DOMAIN voterRows :
        voterRows[v].search_text = build_search_text(voterRows[v])

---------------------------------------------------------------------------
(* SpecFrame: update_voter_status on a table that holds an imported voter *)
(* (voter 1) and saved ones                                               *)

InitFrame ==
    /\ InitStatusVars /\ InitRateVars /\ InitScopeVars
    /\ db = "sqlite3"
    /\ voterRows = [v \in Voters |-> IF v = 1 THEN ImportedRow(<<"A", "B">>)
                                              ELSE SavedRow(<<"a", "b">>)]
    /\ voterCat = [v \in Voters |-> 1]
    /\ searchRes = NoSearch
    /\ suggestRes = NoSuggest
    /\ pageRes = NoPage
    /\ highlighted = NoHighlight

NextFrame ==
    \E pk \in Pks, actor \in Actors, s \in PostedStatuses :
        update_voter_status(pk, actor, s)

SpecFrame == InitFrame /\ [][NextFrame]_vars

\* C30: a request of update_voter_status changes nothing but the status of
\* the voter it names: every stored column of every voter (the stored
\* search_text included, which save() recomputes in memory only), the
\* status of every other voter and every category stay as they were,
\* whatever the outcome of the request.
C30_OnlyTargetStatus ==
    [][ /\ voterRows' = voterRows
        /\ voterCat' = voterCat
        /\ parent' = parent
        /\ \A v \in Voters :
              voterStatus'[v] # voterStatus[v] => v = response'.pk ]_vars

\* a status change was saved for a voter whose stored search_text is not
\* what save() computed in memory
C30_Witness ==
    /\ response.kind = "updated"
    /\ voterStatus[response.pk] = response.status
    /\ before.voterStatus[response.pk] # response.status
    /\ voterRows[response.pk].search_text = NULL
    /\ build_search_text(voterRows[response.pk]) # NULL

---------------------------------------------------------------------------
(* SpecAdmin: the audit trail under update_voter_status and the admin     *)
(* site, where admin.py registers VoterStatusAudit and the user model     *)

NoUser == "NULL"                    \* changed_by after on_delete=SET_NULL
EditedRemarks == "edited"

\* VoterStatusAuditAdmin.readonly_fields: the change form offers every
\* other editable field of the model, which leaves remarks
readonly_fields ==
    {"voter", "changed_by", "old_status", "new_status", "changed_at", "ip_address"}
AuditFields ==
    {"voter", "changed_by", "old_status", "new_status", "remarks", "changed_at",
     "ip_address"}
FormFields == AuditFields \ readonly_fields

\* the change form of audit entry i saved with new remarks
AdminChangeAudit(i, remarks) ==
    /\ i \in DOMAIN audits
    /\ "remarks" \in FormFields
    /\ audits[i].remarks # remarks
    /\ audits' = [audits EXCEPT ![i].remarks = remarks]
    /\ UNCHANGED <<voterStatus, response, before, pc, call, obj>>
    /\ UNCHANGED <<rateVars, scopeVars, searchVars>>

\* the delete view (or the "delete selected" action) of the admin on audit
\* entry i: VoterStatusAuditAdmin overrides no has_delete_permission
AdminDeleteAudit(i) ==
    /\ i \in DOMAIN audits
    /\ audits' = SubSeq(audits, 1, i - 1) \o SubSeq(audits, i + 1, Len(audits))
    /\ UNCHANGED <<voterStatus, response, before, pc, call, obj>>
    /\ UNCHANGED <<rateVars, scopeVars, searchVars>>

\* a user is deleted: changed_by is a ForeignKey with on_delete=SET_NULL
DeleteUser(actor) ==
    /\ \E i \in DOMAIN audits : audits[i].changed_by = actor
    /\ audits' = [i \in DOMAIN audits |->
                    IF audits[i].changed_by = actor
                    THEN [audits[i] EXCEPT !.changed_by = NoUser]
                    ELSE audits[i]]
    /\ UNCHANGED <<voterStatus, response, before, pc, call, obj>>
    /\ UNCHANGED <<rateVars, scopeVars, searchVars>>

\* the status requests of this specification are those of one staff user
\* for one voter with a valid status
NextAdmin ==
    \/ \E s \in STATUS_CHOICES : update_voter_status(1, "alice", s)
    \/ \E i \in 1 .. MaxAudits : AdminChangeAudit(i, EditedRemarks)
    \/ \E i \in 1 .. MaxAudits : AdminDeleteAudit(i)
    \/ \E actor \in Actors : DeleteUser(actor)

SpecAdmin == InitStatus /\ [][NextAdmin]_vars

\* entry f is entry e, or e after the user who made the change was deleted
SameButActor(e, f) == f = e \/ f = [e EXCEPT !.changed_by = NoUser]

\* C22: audit entries are append-only and immutable: no step (a status
\* update, the admin site) removes an entry of the trail or changes one of
\* its fields, except that changed_by becomes null when the user is deleted.
\* (No step of this specification deletes a voter.)
C22_AppendOnly ==
    [][ /\ Len(audits') >= Len(audits)
        /\ \A i \in DOMAIN audits : SameButActor(audits[i], audits'[i]) ]_vars

---------------------------------------------------------------------------
(* SpecDescend: one call of get_category_descendants (views.py,           *)
(* public_views.py) frame by frame, over every category forest;           *)
(* SpecDescendAny: the same over every assignment of parents, those with  *)
(* a cycle included (the admin change form of a category takes any id as  *)
(* its parent)                                                            *)

\* sys.getrecursionlimit(), scaled: deeper than any forest of the model
RecursionLimit == NumCategories + 2

\* the frame of get_category_descendants(category): `descendants = []',
\* `children = Category.objects.filter(parent=category)'
Frame(par, c) == [category |-> c, children |-> Children(par, c), descendants |-> <<>>]

\* descendants.extend(get_category_descendants(child))
ExtendNothing(descendants, returned) == descendants
extend(descendants, returned) == descendants \o returned

\* a view calls get_category_descendants(category)
DescendCall(c) ==
    /\ trav.status = "idle"
    /\ trav' = [status |-> "running", stack |-> <<Frame(parent, c)>>, result |-> <<>>]
    /\ UNCHANGED <<parent, scopeReq, scopeIds, catRows>>
    /\ UNCHANGED <<statusVars, rateVars, searchVars>>

\* `for child in children:' with a child left: descendants.append(child.id),
\* then the recursive call, which the interpreter refuses with
\* RecursionError when the stack is RecursionLimit frames deep
DescendLoop ==
    /\ trav.status = "running"
    /\ LET n == Len(trav.stack)
           top == trav.stack[n]
       IN  /\ top.children # <<>>
           /\ LET child == Head(top.children)
                  here == [top EXCEPT !.children = Tail(@),
                                      !.descendants = Append(@, child)]
              IN  IF n >= RecursionLimit
                  THEN trav' = [trav EXCEPT !.status = "RecursionError"]
                  ELSE trav' = [trav EXCEPT
                                  !.stack = Append([@ EXCEPT ![n] = here],
                                                   Frame(parent, child))]
    /\ UNCHANGED <<parent, scopeReq, scopeIds, catRows>>
    /\ UNCHANGED <<statusVars, rateVars, searchVars>>

\* the loop is over: `return descendants', to the caller's extend() or to
\* the view
DescendReturn ==
    /\ trav.status = "running"
    /\ LET n == Len(trav.stack)
           top == trav.stack[n]
       IN  /\ top.children = <<>>
           /\ IF n = 1
              THEN trav' = [status |-> "returned", stack |-> <<>>,
                            result |-> top.descendants]
              ELSE trav' = [trav EXCEPT
                              !.stack = [SubSeq(@, 1, n - 1) EXCEPT
                                  ![n - 1].descendants = extend(@, top.descendants)]]
    /\ UNCHANGED <<parent, scopeReq, scopeIds, catRows>>
    /\ UNCHANGED <<statusVars, rateVars, searchVars>>

NextDescend ==
    \/ \E c \in Categories : DescendCall(c)
    \/ DescendLoop
    \/ DescendReturn

\* a call that can take a step does take it: the worker runs the view
DescendFair == WF_vars(DescendLoop) /\ WF_vars(DescendReturn)

SpecDescend == InitScope /\ [][NextDescend]_vars /\ DescendFair

InitDescendAny ==
    /\ InitStatusVars /\ InitRateVars /\ InitSearchVars
    /\ parent \in [Categories -> Categories \cup {NoParent}]
    /\ scopeReq = NoSuchCategory
    /\ scopeIds = NoFilter
    /\ catRows = <<>>
    /\ trav = NoCall

SpecDescendAny == InitDescendAny /\ [][NextDescend]_vars /\ DescendFair

\* C24: on every acyclic category forest, whatever its depth, and for every
\* category, a call of get_category_descendants ends, and what it returns
\* are the descendants of the category at every depth.
C24_ReturnsAllDescendants ==
    \A c \in Categories :
        (trav.status = "running" /\ trav.stack[1].category = c)
            ~> (/\ trav.status = "returned"
                /\ Range(trav.result) = Subtree(parent, c) \ {c}
                /\ trav.result = get_category_descendants(parent, c))

\* a call returned a great-grandchild of its category
C24_Witness ==
    /\ trav.status = "returned"
    /\ \E d \in Range(trav.result) :
          /\ parent[d] # NoParent
          /\ parent[parent[d]] # NoParent
          /\ parent[parent[parent[d]]] # NoParent
          /\ parent[parent[parent[d]]] \notin Range(trav.result)

\* C25: on a category table whose parent links hold a cycle, a call of
\* get_category_descendants still ends by returning.
C25_ReturnsOnCycles ==
    (trav.status = "running") ~> (trav.status = "returned")

---------------------------------------------------------------------------
(* SpecImport: the categories table under runs of import_voters_all over  *)
(* directory trees of folders (trees that hold no Excel file, so that no  *)
(* voter is read), on every database backend                              *)

FolderNames == {"a", "A"}
MaxDirs == 3        \* folders in a directory tree

\* a directory tree: the paths of its folders below base_path, every folder
\* but the top ones inside another folder of the tree
DirPaths == UNION {[1 .. k -> FolderNames] : k \in 1 .. MaxDirs}
RECURSIVE TreesOf(_)
TreesOf(n) ==
    IF n = 0 THEN {{}}
    ELSE LET smaller == TreesOf(n - 1)
         IN  smaller \cup
             UNION {{T \cup {d} : d \in {e \in DirPaths :
                                      Len(e) = 1 \/ SubSeq(e, 1, Len(e) - 1) \in T}} :
                    T \in smaller}
Trees == TreesOf(MaxDirs)

\* sorted([e for e in entries if e.is_dir()]): the folders inside `path'
RECURSIVE SortedDirs(_)
SortedDirs(S) ==
    IF S = {} THEN <<>>
    ELSE LET first == CHOOSE d \in S : \A e \in S \ {d} : PyLess(e, d) = FALSE /\ PyLess(d, e)
         IN  <<first>> \o SortedDirs(S \ {first})
subdirs(tree, path) ==
    SortedDirs({d \in tree : Len(d) = Len(path) + 1 /\ SubSeq(d, 1, Len(path)) = path})

\* Category.objects.get_or_create(full_path=full_path, defaults={...}): the
\* rows the lookup finds (the comparison is the one of the column's
\* collation), and the table with the new row when it finds none
Found(backend, rows, full_path) ==
    {i \in DOMAIN rows : SameValue(backend, rows[i].full_path, full_path)}
AlwaysCreate(backend, rows, name, par, full_path, level) ==
    Append(rows, [name |-> name, parent |-> par, full_path |-> full_path,
                  level |-> level])
get_or_create_category(backend, rows, name, par, full_path, level) ==
    IF Found(backend, rows, full_path) # {} THEN rows
    ELSE Append(rows, [name |-> name, parent |-> par, full_path |-> full_path,
                       level |-> level])

\* _scan_directory(path, parent, level): for every folder in sorted order,
\* full_path = f"{parent.full_path}/{folder_name}" or the folder name alone,
\* the category is fetched or created, and the folder is scanned with the
\* category as parent and level + 1.  The table after the scan.
RECURSIVE scan_directory(_, _, _, _, _, _)
scan_directory(backend, rows, tree, path, par, level) ==
    LET RECURSIVE Loop(_, _)
        Loop(dirs, table) ==
            IF dirs = <<>> THEN table
            ELSE LET subdir == Head(dirs)
                     folder_name == subdir[Len(subdir)]
                     full_path == IF par # NoParent
                                  THEN table[par].full_path \o <<"/", folder_name>>
                                  ELSE <<folder_name>>
                     created == get_or_create_category(backend, table, folder_name,
                                                       par, full_path, level)
                     category == CHOOSE i \in Found(backend, created, full_path) :
                                    \A j \in Found(backend, created, full_path) : i <= j
                 IN  Loop(Tail(dirs),
                          scan_directory(backend, created, tree, subdir, category,
                                         level + 1))
    IN  Loop(subdirs(tree, path), rows)

InitImport ==
    /\ InitStatusVars /\ InitRateVars /\ InitScopeVars
    /\ db \in Backends
    /\ voterRows = <<>>
    /\ voterCat = <<>>
    /\ searchRes = NoSearch
    /\ suggestRes = NoSuggest
    /\ pageRes = NoPage
    /\ highlighted = NoHighlight

\* manage.py import_voters_all <base_path> [--clear] [--dry-run]: a dry run
\* neither clears nor creates; --clear deletes every category first.  (The
\* runs of the model leave at most NumCategories categories in the table.)
import_voters_all(tree, clear, dry_run) ==
    /\ dry_run \/ Len(scan_directory(db, IF clear THEN <<>> ELSE catRows,
                                     tree, <<>>, NoParent, 0)) <= NumCategories
    /\ catRows' = IF dry_run THEN catRows
                  ELSE scan_directory(db, IF clear THEN <<>> ELSE catRows,
                                      tree, <<>>, NoParent, 0)
    /\ UNCHANGED <<parent, scopeReq, scopeIds, trav>>
    /\ UNCHANGED <<statusVars, rateVars, searchVars>>

NextImport ==
    \E tree \in Trees, clear \in BOOLEAN, dry_run \in BOOLEAN :
        import_voters_all(tree, clear, dry_run)

SpecImport == InitImport /\ [][NextImport]_vars

\* the names of the chain from the root to category i, joined with '/'
RECURSIVE ChainPath(_, _)
ChainPath(rows, i) ==
    IF rows[i].parent = NoParent THEN <<rows[i].name>>
    ELSE ChainPath(rows, rows[i].parent) \o <<"/", rows[i].name>>

\* C23: after any sequence of runs of import_voters_all (with or without
\* --clear, over any directory tree) every category has level 0 and no
\* parent, or a level one more than its parent's; its full_path is the
\* names of its chain from the root joined with '/'; and no two categories
\* have the same full_path.
C23_TreeInvariants ==
    /\ \A i \in DOMAIN catRows :
          /\ IF catRows[i].parent = NoParent
             THEN catRows[i].level = 0
             ELSE /\ catRows[i].parent \in DOMAIN catRows
                  /\ catRows[i].level = catRows[catRows[i].parent].level + 1
          /\ catRows[i].full_path = ChainPath(catRows, i)
    /\ \A i, j \in DOMAIN catRows :
          i # j => catRows[i].full_path # catRows[j].full_path

\* runs left a category two levels below a root in the table, under a
\* parent that an earlier run had created
C23_Witness ==
    \E i \in DOMAIN catRows :
        /\ catRows[i].level = 2
        /\ catRows[i].parent # NoParent
        /\ catRows[catRows[i].parent].level = 1
        /\ catRows[i].parent + 1 < i

---------------------------------------------------------------------------
(* SpecPage: the public page advanced_voter_search with its GET           *)
(* parameters, over every category forest, the store holding one voter in *)
(* every category                                                         *)

PageQuery == <<"a", "b">>
PageTexts ==
    {NoText, [NoText EXCEPT !["name"] = PageQuery],
     [NoText EXCEPT !["father"] = PageQuery]}
PageMeta == [xff |-> NoHeader, remote |-> "c1"]

\* the requests of the model carry at most one category parameter
PageParams ==
    {[search |-> q, text |-> t, gender |-> g, upazila |-> ParamOf("upazila", n, id),
      union |-> ParamOf("union", n, id), voter_area |-> ParamOf("voter_area", n, id)] :
        q \in {<<>>, PageQuery}, t \in PageTexts, g \in {"", "all", "male"},
        n \in ScopeParamNames, id \in ScopeParams \cup {NoParam}}

\* the one request of a behaviour: GET /search/ with the parameters
PageRequest(params) ==
    /\ ~pageRes.requested
    /\ advanced_voter_search(PageMeta, params)

NextPage == \E params \in PageParams : PageRequest(params)

SpecPage == InitScoped /\ [][NextPage]_vars

\* C27: advanced_voter_search shows records only when filters are applied:
\* whenever the view produces a page of results, at least one of the
\* supplied filters has been applied to the voters, so that the page is
\* never the complete unfiltered table.
C27_PageOnlyWhenFiltered ==
    (pageRes.requested /\ pageRes.page_obj # NoPageObj) => pageRes.applied # {}

====
